---- MODULE Spec2Model ----
(***************************************************************************)
(* A model of the Rocket-Launch-Simulation core: the vehicle configuration *)
(* store (rocketConfig.js), the guidance state machine (guidance.js) and   *)
(* the adaptive sub-stepping integrator (main.js update / loop).           *)
(*                                                                         *)
(* Numbers.  The program computes in IEEE doubles; the model computes in   *)
(* integers with fixed units, chosen so that every quantity stays inside   *)
(* 32 bits:                                                                *)
(*   lengths and diameters of the configuration   decimetres               *)
(*   tankLengthRatio, dryMassEngineFraction       percent                  *)
(*   configuration masses                         kilograms                *)
(*   propellantRemaining                          grams                    *)
(*   thrust, drag                                 newtons                  *)
(*   time, dt                                     milliseconds             *)
(*   altitude of the vehicle state                millimetres              *)
(*   altitudes handed to the physics functions    metres                   *)
(*   velocities of the vehicle state              millimetres per second   *)
(*   accelerations                                mm/s^2                   *)
(*   angles (pitch, gimbal, rocketAngle)          millidegrees             *)
(*   angular velocity                             millidegrees per second  *)
(*   throttle, sines and cosines                  permille                 *)
(*                                                                         *)
(* Frame.  The program keeps (x, y, vx, vy) about the Earth's centre and   *)
(* every sub-step projects them on the local vertical and the local east.  *)
(* Nothing it computes depends on the polar angle of the position, so the  *)
(* model keeps the projections themselves: altitude (r - EARTH_RADIUS),    *)
(* vVertical and vHorizontal.  The rotation of the local frame during a    *)
(* sub-step appears as the vHorizontal^2 / r and vVertical * vHorizontal   *)
(* / r terms of the integrator.                                            *)
(*                                                                         *)
(* Display-only fields of the state object (trail, zoom, camera,           *)
(* forceVectors, apoapsis/periapsis read-outs, guidanceDebug) are not      *)
(* modelled; the aerodynamic-forces setting is off, so drag is getDrag.    *)
(* The event log keeps the texts of the events without their numbers.      *)
(* The missions flown are the guided launch and the orbital spawn.         *)
(***************************************************************************)
EXTENDS Integers, Sequences, FiniteSets, TLC

VARIABLES
    currentConfig,   \* rocketConfig.js: let currentConfig
    raised,          \* TRUE iff the last configuration call ended by throwing
    state,           \* state.js: export const state
    guidanceState,   \* guidance.js: export let guidanceState
    speedIdx,        \* input.js: let speedIdx
    tick,            \* update(dt): where the call stands, and its constants
    call,            \* the last computeGuidance call: its dt and its result
    env              \* the host: frame period, last frame delta, counters

cfgVars == <<currentConfig, raised>>

simVars == <<state, guidanceState, speedIdx, tick, call, env>>

vars == <<currentConfig, raised, state, guidanceState, speedIdx, tick, call, env>>

-----------------------------------------------------------------------------
(* JavaScript values.  An object is a record; a property the object lacks  *)
(* is a field the record lacks.  NaN stands for the double NaN (the result *)
(* of undefined + number).                                                 *)

Has(obj, f) == f \in DOMAIN obj

NaN == 0 - 1000000

JsAdd(a, b) == IF a = NaN \/ b = NaN THEN NaN ELSE a + b

\* The element of a singleton.  The({F(x) : x \in {e}}) is F(e) with e
\* evaluated once, as an assignment to a local const does.
The(S) == CHOOSE x \in S : TRUE

\* obj.length read as a number operand: a missing property is undefined,
\* and undefined + n is NaN.
LengthOf(obj) == IF Has(obj, "length") THEN obj.length ELSE NaN

-----------------------------------------------------------------------------
(* Integer arithmetic standing for Math.* on doubles.                      *)

Abs(a) == IF a < 0 THEN 0 - a ELSE a

Min(a, b) == IF a < b THEN a ELSE b

Max(a, b) == IF a > b THEN a ELSE b

Sign(a) == IF a > 0 THEN 1 ELSE IF a < 0 THEN 0 - 1 ELSE 0

\* a / b for b > 0, rounded toward zero.
Quot(a, b) == IF a >= 0 THEN a \div b ELSE 0 - ((0 - a) \div b)

\* Math.ceil(a / b) for a >= 0, b > 0.
CeilDiv(a, b) == (a + b - 1) \div b

\* <<q + d / c, d mod c>>
DivMod(q, d, c) == << q + d \div c, d % c >>

\* From h = <<q, r>> with a * n = q * c + r to a * (radix * n + digit), add
\* being a * digit.
Shift(h, add, c, radix) == DivMod(radix * h[1], radix * h[2] + add, c)

\* a * b = q * c + r, r < c, as <<q, r>>, for 0 <= a < c, b >= 0 and
\* 2 <= radix <= (2^30 - 1) / c: b is taken digit by digit, so that no
\* intermediate value leaves 32 bits.
RECURSIVE MulMod(_, _, _, _)
MulMod(a, b, c, radix) ==
    IF b = 0 THEN << 0, 0 >>
    ELSE The({ Shift(h, a * (b % radix), c, radix) :
               h \in {MulMod(a, b \div radix, c, radix)} })

\* a * b / c for a, b >= 0 and 0 < c < 2^29, rounded down.
MulDivNat(a, b, c) ==
    (a \div c) * b + MulMod(a % c, b, c, 1073741823 \div c)[1]

\* a * b / c for c > 0, rounded toward zero.
MulDiv(a, b, c) ==
    The({ (IF (x < 0) = (y < 0) THEN 1 ELSE 0 - 1) * MulDivNat(Abs(x), Abs(y), z) :
          x \in {a}, y \in {b}, z \in {c} })

RECURSIVE SqrtFrom(_, _)
SqrtFrom(n, x) ==
    The({ IF y >= x THEN x ELSE SqrtFrom(n, y) : y \in {(x + n \div x) \div 2} })

\* Math.sqrt, rounded down (Newton's iteration from above).
Sqrt(n) == The({ IF v <= 0 THEN 0 ELSE SqrtFrom(v, v) : v \in {n} })

\* Bhaskara's formula for the sine on a half turn, from p = cd * (18000 - cd)
\* / 100 for cd in hundredths of a degree; accurate to 2 permille.
Bhaskara(p) == (4 * p * 100) \div ((4050000 - p) \div 10)

SinHalfTurn(cd) == Bhaskara((cd * (18000 - cd)) \div 100)

SinTurn(cd) == IF cd <= 18000 THEN SinHalfTurn(cd) ELSE 0 - SinHalfTurn(cd - 18000)

\* Math.sin of an angle in millidegrees, in permille.
Sin(a) == SinTurn((a \div 10) % 36000)

Cos(a) == Sin(a + 90000)

HypotScaled(a, b, k) ==
    Sqrt(Quot(a, k) * Quot(a, k) + Quot(b, k) * Quot(b, k)) * k

\* Math.sqrt(a * a + b * b); operands beyond 30000 are scaled down first.
Hypot(a, b) ==
    The({ HypotScaled(x, y, Max(Abs(x), Abs(y)) \div 30000 + 1) : x \in {a}, y \in {b} })

\* Math.exp(-x) for x >= 0 in permille, in permille.
ExpNeg(x) == 1000000 \div (1000 + x + (x * x) \div 2000)

\* 2 * (z + z^3 / 3 + z^5 / 5 + z^7 / 7) for z and z2 = z * z in parts per
\* million.
LnSeries(z, z2) ==
    2 * (z + MulDiv(z, MulDiv(z2, 333333 + MulDiv(z2, 200000 + z2 \div 7, 1000000),
                             1000000),
                    1000000))

LnOf(z) == LnSeries(z, MulDiv(z, z, 1000000))

\* Math.log(a / b) for a >= b > 0, in parts per million.
RECURSIVE Ln(_, _)
Ln(a, b) ==
    IF a >= 2 * b THEN 693147 + Ln(a, 2 * b)
    ELSE The({ LnOf(z) : z \in {MulDiv(a - b, 1000000, a + b)} })

\* Math.atan of t in [0, 1] given in permille, in millidegrees.
AtanUnit(t) == 45 * t + (1564 * ((t * (1000 - t)) \div 100)) \div 1000

\* lo / hi in permille for 0 <= lo <= hi; 0 / 0 is taken as 0.
Ratio(lo, hi) ==
    IF hi = 0 THEN 0
    ELSE IF hi < 2000000 THEN (lo * 1000) \div hi
    ELSE Min(1000, lo \div (hi \div 1000))

\* atan2 in the first quadrant, ay >= 0 and ax >= 0.
AtanQuadrant(ay, ax) ==
    (IF ay <= ax THEN 0 ELSE 90000)
    + (IF ay <= ax THEN 1 ELSE 0 - 1) * AtanUnit(Ratio(Min(ay, ax), Max(ay, ax)))

\* atan2 in the upper half plane, ay >= 0.
AtanUpper(ay, x) ==
    (IF x >= 0 THEN 0 ELSE 180000)
    + (IF x >= 0 THEN 1 ELSE 0 - 1) * AtanQuadrant(ay, Abs(x))

\* Math.atan2(y, x) * 180 / Math.PI in millidegrees; atan2(0, 0) is 0.
Atan2(y, x) ==
    The({ (IF v >= 0 THEN 1 ELSE 0 - 1) * AtanUpper(Abs(v), u) : v \in {y}, u \in {x} })

-----------------------------------------------------------------------------
(* constants.js                                                            *)

\* G * EARTH_MASS / 1e6 (mu = 3.98589196e14 m^3/s^2)
MU_E6 == 398589196

EARTH_RADIUS == 6371000

\* EARTH_ROTATION in 1e-9 rad/s
EARTH_ROTATION == 72921

KARMAN_LINE == 100000

PI_MILLI == 3142

DEFAULT_DENSITY == 923

DEFAULT_TANK_RATIO == 85

ROCKET_CONFIG ==
    [ stages |-> <<
        [ kind |-> "stage", dryMass |-> 22200, propellantMass |-> 395700,
          thrust |-> 7607000, thrustVac |-> 8227000, isp |-> 282, ispVac |-> 311,
          diameter |-> 37, length |-> 470, tankLengthRatio |-> 85,
          engineLength |-> 30, dryMassEngineFraction |-> 60,
          gimbalMaxAngle |-> 5000, gimbalRate |-> 20000, gimbalPoint |-> 5 ],
        [ kind |-> "stage", dryMass |-> 4000, propellantMass |-> 92670,
          thrust |-> 981000, thrustVac |-> 981000, isp |-> 348, ispVac |-> 348,
          diameter |-> 37, length |-> 140, tankLengthRatio |-> 80,
          engineLength |-> 20, dryMassEngineFraction |-> 50,
          gimbalMaxAngle |-> 5000, gimbalRate |-> 15000, gimbalPoint |-> 3 ] >>,
      payload |-> [ mass |-> 15000, length |-> 50, diameter |-> 37 ],
      fairing |-> [ mass |-> 1700, length |-> 40, diameter |-> 37 ],
      fairingJettisonAlt |-> 110000,
      totalLength |-> 700,
      propellantDensity |-> 923 ]

GUIDANCE_CONFIG ==
    [ targetAltitude     |-> 500000,
      atmosphereLimit    |-> 70000,
      maxQ               |-> 35000,
      maxPitchCorrection |-> 10000,
      maxPitchRate       |-> 2000,
      throttleDownMargin |-> 1150,
      minThrottle        |-> 400,
      initialPitch       |-> 85000,
      pitchKickStart     |-> 10000,
      pitchKickEnd       |-> 15000 ]

\* mu / r in m^2/s^2 for r in metres
MuOver(r) == MulDiv(MU_E6, 1000000, r)

-----------------------------------------------------------------------------
(* Bounds of the explorations.                                             *)

\* running frames of one flight
MaxTicks == 6

\* the time-warp button is pressed up to speeds[MaxSpeedIdx + 1] = 25
MaxSpeedIdx == 4

\* operator commands and irregular frames of one flight
MaxCommands == 1

\* computeGuidance / resetGuidance calls of one guidance exploration
MaxCalls == 3

\* running frames of a fall from the pad at 16 ms a frame
FallTicks == 70

\* running frames of one piloted flight
PilotTicks == 2

\* running frames of one guided flight above the atmosphere
VacuumTicks == 2

\* operator commands and irregular frames of one piloted flight
PilotCommands == 2

\* frames of a flight in orbital mode
OrbitTicks == 2

\* burn-button and reset events of a flight in orbital mode
OrbitCommands == 2

\* loop(time): dt = Math.min((time - lastTime) / 1000, 0.1), milliseconds
WallDeltas == {0, 16, 100}

FramePeriods == {16, 100}

GameModes == {"guided", "orbital"}

BurnModes == {"prograde", "retrograde", "radial", "anti-radial"}

\* the sub-step sizes handed to computeGuidance
GuidanceDeltas == {0, 16, 50}

-----------------------------------------------------------------------------
(* rocketConfig.js                                                         *)

\* JSON.parse(JSON.stringify(entry)) of one array element: undefined
\* becomes null, everything else the model holds is kept.
deepCloneEntry(e) == IF e.kind = "undefined" THEN [kind |-> "null"] ELSE e

deepClone(config) ==
    IF Has(config, "stages")
    THEN [config EXCEPT !.stages =
             [i \in DOMAIN config.stages |-> deepCloneEntry(config.stages[i])]]
    ELSE config

\* Reading a property of null throws a TypeError.
Throws(config) == \E i \in DOMAIN config.stages : config.stages[i].kind = "null"

RECURSIVE SumStageLengths(_, _)
SumStageLengths(stages, i) ==
    IF i > Len(stages) THEN 0
    ELSE JsAdd(LengthOf(stages[i]), SumStageLengths(stages, i + 1))

computeTotalLength(config) ==
    JsAdd(JsAdd(SumStageLengths(config.stages, 1), LengthOf(config.payload)),
          LengthOf(config.fairing))

\* pi * r^2 * tankHeight * density, in kg; (x || 0) and (x ?? 0.85) default
\* the missing properties, (propellantDensity || 923) a zero density.
getMaxPropellantForStage(stage, propellantDensity) ==
    LET d          == IF Has(stage, "diameter") THEN stage.diameter ELSE 0
        len        == IF Has(stage, "length") THEN stage.length ELSE 0
        ratio      == IF Has(stage, "tankLengthRatio")
                      THEN stage.tankLengthRatio ELSE DEFAULT_TANK_RATIO
        density    == IF propellantDensity = 0
                      THEN DEFAULT_DENSITY ELSE propellantDensity
        area       == (PI_MILLI * d * d) \div 4000      \* dm^2
        tankHeight == len * ratio                       \* mm
        volume     == (area * tankHeight) \div 100      \* litres
    IN  (volume * density) \div 1000

\* stage.propellantMass > maxProp is false when the property is missing.
clampPropellantNever(stage, maxProp) == stage

clampPropellant(stage, maxProp) ==
    IF Has(stage, "propellantMass") /\ stage.propellantMass > maxProp
    THEN [stage EXCEPT !.propellantMass = maxProp]
    ELSE stage

recomputeTotalLengthStale(out) == out

recomputeTotalLength(out) ==
    [f \in DOMAIN out \cup {"totalLength"} |->
        IF f = "totalLength" THEN computeTotalLength(out) ELSE out[f]]

\* Only called on a config for which Throws is false.
normalizeConfig(config) ==
    LET out     == recomputeTotalLength(deepClone(config))
        density == IF Has(out, "propellantDensity")
                   THEN out.propellantDensity ELSE DEFAULT_DENSITY
    IN  [out EXCEPT !.stages =
            [i \in DOMAIN out.stages |->
                clampPropellant(out.stages[i],
                    getMaxPropellantForStage(out.stages[i], density))]]

getRocketConfig == currentConfig

getDefaultRocketConfig == deepClone(ROCKET_CONFIG)

\* The guard of setRocketConfig: the inputs it returns on without a write.
Rejected(config) ==
    \/ config.kind = "null"
    \/ ~Has(config, "stages")
    \/ ~config.stagesIsArray
    \/ Len(config.stages) < 2
    \/ ~Has(config, "payload")
    \/ ~Has(config, "fairing")

setRocketConfig(config) ==
    IF Rejected(config)
    THEN /\ raised' = FALSE
         /\ UNCHANGED currentConfig
    ELSE IF Throws(deepClone(config))
    THEN /\ raised' = TRUE
         /\ UNCHANGED currentConfig
    ELSE /\ raised' = FALSE
         /\ currentConfig' = normalizeConfig(config)

resetToDefault ==
    /\ currentConfig' = normalizeConfig(getDefaultRocketConfig)
    /\ raised' = FALSE

-----------------------------------------------------------------------------
(* physics.js: atmosphere.  getAtmosphericProperties evaluates the US      *)
(* Standard Atmosphere 1976 layer formulas; the tables hold its results    *)
(* every 2 km of geometric altitude from 0 to 120 km and the model         *)
(* interpolates linearly between them.                                     *)

\* pressure / SEA_LEVEL_PRESSURE in parts per million
PRESSURE_PPM ==
    << 1000000, 784621, 608547, 466008, 351861, 261540, 191459, 139852,
       102176, 74665, 54572, 39946, 29329, 21598, 15951, 11814,
       8775, 6547, 4920, 3722, 2834, 2171, 1673, 1296,
       1010, 787, 614, 477, 369, 283, 217, 165,
       124, 93, 70, 52, 38, 28, 20, 14,
       10, 7, 5, 4, 3, 2, 1, 1,
       1, 0, 0, 0, 0, 0, 0, 0,
       0, 0, 0, 0, 0 >>

\* density in milligrams per cubic metre
DENSITY_MG ==
    << 1224977, 1006539, 819339, 660108, 525786, 413513, 311934, 227854,
       166470, 121647, 88911, 64509, 46938, 34257, 25076, 18410,
       13555, 9887, 7258, 5367, 3996, 2995, 2259, 1714,
       1317, 1027, 806, 639, 504, 396, 310, 241,
       186, 143, 109, 83, 62, 46, 34, 25,
       18, 13, 10, 7, 5, 3, 2, 2,
       1, 1, 1, 0, 0, 0, 0, 0,
       0, 0, 0, 0, 0 >>

\* speed of sound in decimetres per second
SOUND_DMS ==
    << 3403, 3325, 3246, 3165, 3081, 2995, 2951, 2951,
       2951, 2951, 2951, 2964, 2977, 2991, 3004, 3017,
       3030, 3065, 3101, 3137, 3172, 3207, 3241, 3275,
       3298, 3298, 3288, 3254, 3220, 3186, 3151, 3116,
       3080, 3044, 3007, 2971, 2934, 2908, 2880, 2853,
       2825, 2798, 2769, 2741, 2741, 2741, 2741, 2741,
       2741, 2741, 2741, 2741, 2741, 2741, 2741, 2741,
       2741, 2741, 2741, 2741, 2741 >>

\* altitude in metres; "if (altitude < 0) altitude = 0".
AtAltitude(table, altitude) ==
    LET z == Max(0, altitude)
        i == z \div 2000
    IN  IF i + 1 >= Len(table) THEN table[Len(table)]
        ELSE table[i + 1] + Quot((table[i + 2] - table[i + 1]) * (z % 2000), 2000)

getAtmosphericPressureRatio(altitude) == AtAltitude(PRESSURE_PPM, altitude)

getAtmosphericDensity(altitude) == AtAltitude(DENSITY_MG, altitude)

getSpeedOfSound(altitude) == AtAltitude(SOUND_DMS, altitude)

-----------------------------------------------------------------------------
(* state.js and physics.js: the vehicle.  s is the state object, config    *)
(* the value of getRocketConfig().                                         *)

AltitudeM(s) == Quot(s.altitude, 1000)

\* Math.sqrt(state.x * state.x + state.y * state.y), metres
Radius(s) == EARTH_RADIUS + AltitudeM(s)

getAltitude(s) == AltitudeM(s)

StageInRange(s, config) == s.currentStage < Len(config.stages)

CurrentStage(s, config) == config.stages[s.currentStage + 1]

CurrentPropellant(s) == s.propellantRemaining[s.currentStage + 1]

RECURSIVE StagesMass(_, _, _)
StagesMass(s, config, i) ==
    IF i > Len(config.stages) THEN 0
    ELSE config.stages[i].dryMass + Quot(s.propellantRemaining[i], 1000)
         + StagesMass(s, config, i + 1)

\* payload, the fairing until it is jettisoned, and every stage from the
\* current one on (dry mass and remaining propellant), kg
getTotalMass(s, config) ==
    config.payload.mass
    + (IF s.fairingJettisoned THEN 0 ELSE config.fairing.mass)
    + StagesMass(s, config, s.currentStage + 1)

\* G * EARTH_MASS / (r * r), mm/s^2
getGravity(r) == MulDiv(MuOver(r), 1000, r)

getCurrentThrustUnguarded(s, config, altitude, throttle) ==
    LET stage == config.stages[Min(s.currentStage, Len(config.stages) - 1) + 1]
        pressureRatio == getAtmosphericPressureRatio(altitude)
        baseThrust == MulDiv(stage.thrust, pressureRatio, 1000000)
                      + MulDiv(stage.thrustVac, 1000000 - pressureRatio, 1000000)
    IN  MulDiv(baseThrust, throttle, 1000)

\* newtons; altitude in metres, throttle in permille
getCurrentThrust(s, config, altitude, throttle) ==
    IF ~s.engineOn \/ s.currentStage >= Len(config.stages) THEN 0
    ELSE IF CurrentPropellant(s) <= 0 THEN 0
    ELSE LET stage == CurrentStage(s, config)
             pressureRatio == getAtmosphericPressureRatio(altitude)
             baseThrust == MulDiv(stage.thrust, pressureRatio, 1000000)
                           + MulDiv(stage.thrustVac, 1000000 - pressureRatio, 1000000)
         IN  MulDiv(baseThrust, throttle, 1000)

\* grams per second
getMassFlowRate(s, config, altitude, throttle) ==
    IF ~s.engineOn \/ s.currentStage >= Len(config.stages) THEN 0
    ELSE IF CurrentPropellant(s) <= 0 THEN 0
    ELSE LET stage == CurrentStage(s, config)
             pressureRatio == getAtmosphericPressureRatio(altitude)
             \* isp in milliseconds
             isp == (stage.isp * pressureRatio
                       + stage.ispVac * (1000000 - pressureRatio)) \div 1000
         IN  MulDiv(getCurrentThrust(s, config, altitude, throttle),
                    100000000, isp * 981)

\* Velocity relative to the atmosphere, which turns with the Earth:
\* <<airspeed, along the local vertical, along the local east>>, mm/s.
getAirspeed(s) ==
    LET atmV == MulDiv(Radius(s), EARTH_ROTATION, 1000000)
        airV == s.vHorizontal - atmV
    IN  << Hypot(s.vVertical, airV), s.vVertical, airV >>

\* Cd in permille for a Mach number in permille.
getMachDragCoefficient(config, mach) ==
    LET \* 11 / finenessRatio = 11 * diameter / totalLength, permille
        finenessAdjustment ==
            Min(1000, (11000 * config.stages[1].diameter) \div config.totalLength)
        t(lo, width) == ((mach - lo) * 1000) \div width
        smoothT == LET u == t(800, 200) IN (((u * u) \div 1000) * (3000 - 2 * u)) \div 1000
        baseCd ==
            IF mach < 600 THEN 300
            ELSE IF mach < 800 THEN 300 + (t(600, 200) * 20) \div 1000
            ELSE IF mach < 1000 THEN 320 + (smoothT * 180) \div 1000
            ELSE IF mach < 1050 THEN 500 + ((mach - 1000) * 4) \div 10
            ELSE IF mach < 1200 THEN 520 - ((mach - 1050) * 4) \div 10
            ELSE IF mach < 2000 THEN 460 - (t(1200, 800) * 100) \div 1000
            ELSE IF mach < 3000 THEN 360 - (t(2000, 1000) * 60) \div 1000
            ELSE IF mach < 5000 THEN 300 - (t(3000, 2000) * 50) \div 1000
            ELSE 220 + (30 * ExpNeg((mach - 5000) \div 3)) \div 1000
    IN  (baseCd * finenessAdjustment) \div 1000

\* 0.5 * density * airspeed^2 in pascals; altitude metres, airspeed mm/s
DynamicPressure(altitude, airspeed) ==
    LET v == airspeed \div 1000
    IN  MulDiv(v * v, getAtmosphericDensity(altitude), 2000000)

\* newtons; altitude metres, airspeed mm/s
getDrag(s, config, altitude, airspeed) ==
    IF s.currentStage >= Len(config.stages) THEN 0
    ELSE LET stage == CurrentStage(s, config)
             area == (PI_MILLI * stage.diameter * stage.diameter) \div 4000  \* dm^2
             mach == MulDiv(airspeed, 10, getSpeedOfSound(altitude))
             Cd == getMachDragCoefficient(config, mach)
         IN  MulDiv(MulDiv(DynamicPressure(altitude, airspeed), Cd, 1000), area, 100)

-----------------------------------------------------------------------------
(* physics.js: mass properties.  Positions are measured from the bottom of *)
(* the vehicle, moments in kg*dm, the centre of gravity in millimetres,    *)
(* the moment of inertia in kg*m^2.                                        *)

PropellantKg(s, i) == Quot(s.propellantRemaining[i], 1000)

\* <<fuelHeight, tankHeight>> in millimetres for stage number i (1-based).
calculateFuelLevel(s, config, i) ==
    LET stage == config.stages[i]
        tankCrossSection == (PI_MILLI * stage.diameter * stage.diameter) \div 4000
        tankHeight == stage.length * stage.tankLengthRatio
        currentFuelVolume == Quot(s.propellantRemaining[i], config.propellantDensity)
        fuelHeight == MulDiv(currentFuelVolume, 100, tankCrossSection)
    IN  << Min(fuelHeight, tankHeight), tankHeight >>

\* <<stageCOG in dm from the stage's bottom, totalMass in kg>>
calculateStageCOG(s, config, i) ==
    LET stage == config.stages[i]
        propellant == PropellantKg(s, i)
        fuelHeight == calculateFuelLevel(s, config, i)[1]
        engineMass == (stage.dryMass * stage.dryMassEngineFraction) \div 100
        structureMass == stage.dryMass - engineMass
        totalMass == stage.dryMass + propellant
        momentSum == (engineMass * stage.engineLength) \div 2
                     + (structureMass * stage.length) \div 2
                     + MulDiv(propellant, stage.engineLength * 200 + fuelHeight, 200)
    IN  IF totalMass = 0 THEN << stage.length \div 2, 0 >>
        ELSE << momentSum \div totalMass, totalMass >>

\* The bottom of stage 2, of the payload and of the fairing, in dm.
Stage2Bottom(s, config) == IF s.currentStage = 0 THEN config.stages[1].length ELSE 0

PayloadBottom(s, config) ==
    Stage2Bottom(s, config) + (IF s.currentStage <= 1 THEN config.stages[2].length ELSE 0)

FairingBottom(s, config) == PayloadBottom(s, config) + config.payload.length

\* The sums of calculateRocketCOG over the attached parts; stage1 and stage2
\* are the results of calculateStageCOG.
RocketMass(s, config, stage1, stage2) ==
    (IF s.currentStage = 0 THEN stage1[2] ELSE 0)
    + (IF s.currentStage <= 1 THEN stage2[2] ELSE 0)
    + config.payload.mass
    + (IF ~s.fairingJettisoned THEN config.fairing.mass ELSE 0)

RocketMoment(s, config, stage1, stage2) ==
    (IF s.currentStage = 0 THEN stage1[2] * stage1[1] ELSE 0)
    + (IF s.currentStage <= 1
       THEN stage2[2] * (Stage2Bottom(s, config) + stage2[1]) ELSE 0)
    + (config.payload.mass
         * (2 * PayloadBottom(s, config) + config.payload.length)) \div 2
    + (IF ~s.fairingJettisoned
       THEN (config.fairing.mass
               * (3 * FairingBottom(s, config) + config.fairing.length)) \div 3
       ELSE 0)

\* momentSum / totalMass in millimetres, 0 for a vehicle without mass
CentreOf(momentSum, totalMass) ==
    IF totalMass > 0 THEN MulDiv(momentSum, 100, totalMass) ELSE 0

CombineCOG(s, config, stage1, stage2) ==
    CentreOf(RocketMoment(s, config, stage1, stage2),
             RocketMass(s, config, stage1, stage2))

\* cog in millimetres from the bottom of the vehicle
calculateRocketCOG(s, config) ==
    The({ CombineCOG(s, config, stage1, stage2) :
          stage1 \in {calculateStageCOG(s, config, 1)},
          stage2 \in {calculateStageCOG(s, config, 2)} })

\* mass * dist^2 for a distance in millimetres, kg*m^2
PointMOI(mass, dist) == MulDiv(mass, (dist \div 100) * (dist \div 100), 100)

\* The propellant's terms of the moment of inertia of stage i; fuelHeight in
\* millimetres.
FuelMOI(s, config, i, bottom, cog, fuelHeight) ==
    IF s.propellantRemaining[i] > 0 /\ fuelHeight > 0
    THEN MulDiv(PropellantKg(s, i), (fuelHeight \div 100) * (fuelHeight \div 100), 1200)
         + MulDiv(PropellantKg(s, i),
                  config.stages[i].diameter * config.stages[i].diameter, 1600)
         + PointMOI(PropellantKg(s, i),
                    (bottom + config.stages[i].engineLength) * 100
                      + fuelHeight \div 2 - cog)
    ELSE 0

\* The engine's and the structure's terms for a stage.
DryMOI(stage, engineMass, bottom, cog) ==
    PointMOI(engineMass, bottom * 100 + stage.engineLength * 50 - cog)
    + MulDiv(stage.dryMass - engineMass, stage.length * stage.length, 1200)
    + PointMOI(stage.dryMass - engineMass, bottom * 100 + stage.length * 50 - cog)

\* The terms one stage adds to the moment of inertia; bottom in dm, cog in mm.
StageMOI(s, config, i, bottom, cog) ==
    DryMOI(config.stages[i],
           (config.stages[i].dryMass * config.stages[i].dryMassEngineFraction) \div 100,
           bottom, cog)
    + The({ FuelMOI(s, config, i, bottom, cog, fuelHeight) :
            fuelHeight \in {calculateFuelLevel(s, config, i)[1]} })

PayloadMOI(payload, dist) ==
    MulDiv(payload.mass, payload.length * payload.length, 1200)
    + MulDiv(payload.mass, payload.diameter * payload.diameter, 1600)
    + PointMOI(payload.mass, dist)

FairingMOI(fairing, dist) ==
    MulDiv(fairing.mass, 3 * fairing.diameter * fairing.diameter, 4000)
    + MulDiv(fairing.mass, fairing.length * fairing.length, 1000)
    + PointMOI(fairing.mass, dist)

MomentOfInertiaAbout(s, config, cog) ==
    (IF s.currentStage = 0 THEN StageMOI(s, config, 1, 0, cog) ELSE 0)
    + (IF s.currentStage <= 1
       THEN StageMOI(s, config, 2, Stage2Bottom(s, config), cog) ELSE 0)
    + PayloadMOI(config.payload,
                 PayloadBottom(s, config) * 100 + config.payload.length * 50 - cog)
    + (IF ~s.fairingJettisoned
       THEN FairingMOI(config.fairing,
                       FairingBottom(s, config) * 100
                         + (config.fairing.length * 100) \div 3 - cog)
       ELSE 0)

\* momentOfInertia about the centre of gravity, kg*m^2
calculateMomentOfInertia(s, config) ==
    The({ MomentOfInertiaAbout(s, config, cog) : cog \in {calculateRocketCOG(s, config)} })

-----------------------------------------------------------------------------
(* physics.js: attitude.  rocketAngle is measured from the local vertical  *)
(* toward the local east; pitch is 90 degrees minus rocketAngle.           *)

\* millimetres
calculateGimbalMomentArm(s, config) ==
    IF s.currentStage >= Len(config.stages) THEN 0
    ELSE calculateRocketCOG(s, config) - CurrentStage(s, config).gimbalPoint * 100

\* newton metres
calculateGimbalTorque(s, config, thrust, gimbalAngle) ==
    IF thrust <= 0 \/ ~s.engineOn THEN 0
    ELSE MulDiv(MulDiv(thrust, Sin(gimbalAngle), 1000),
                calculateGimbalMomentArm(s, config), 1000)

\* torque / Math.max(momentOfInertia, 1), millidegrees per second squared
calculateAngularAcceleration(s, config, thrust, gimbalAngle) ==
    MulDiv(calculateGimbalTorque(s, config, thrust, gimbalAngle), 57296,
           Max(calculateMomentOfInertia(s, config), 1))

\* The actuator without its rate limit: the clamped command at once.
updateGimbalAngleAtOnce(s, config, commandedAngle, currentAngle, dt) ==
    IF s.currentStage >= Len(config.stages) THEN 0
    ELSE Max(0 - CurrentStage(s, config).gimbalMaxAngle,
             Min(CurrentStage(s, config).gimbalMaxAngle, commandedAngle))

updateGimbalAngle(s, config, commandedAngle, currentAngle, dt) ==
    IF s.currentStage >= Len(config.stages) THEN 0
    ELSE LET stage == CurrentStage(s, config)
             maxAngle == stage.gimbalMaxAngle
             clampedCommand == Max(0 - maxAngle, Min(maxAngle, commandedAngle))
             angleDiff == clampedCommand - currentAngle
             maxChange == (stage.gimbalRate * dt) \div 1000
         IN  IF Abs(angleDiff) <= maxChange THEN clampedCommand
             ELSE currentAngle + Sign(angleDiff) * maxChange

\* while (angle > 2 pi) angle -= 2 pi; while (angle < -2 pi) angle += 2 pi
RECURSIVE WrapAngle(_)
WrapAngle(a) ==
    IF a > 360000 THEN WrapAngle(a - 360000)
    ELSE IF a < 0 - 360000 THEN WrapAngle(a + 360000)
    ELSE a

\* state.rocketAngle += state.angularVelocity * dt, normalised
Rotate(s, dt, angularVelocity) ==
    [ s EXCEPT !.angularVelocity = angularVelocity,
               !.rocketAngle = WrapAngle(s.rocketAngle + Quot(angularVelocity * dt, 1000)) ]

\* "Apply damping in atmosphere": 0.01 * density * airspeed^2 / 1e6 per
\* second, below 70 km.
Damped(s, dt, angularVelocity) ==
    IF AltitudeM(s) < 70000
    THEN angularVelocity
         - MulDiv(MulDiv(angularVelocity,
                         2 * DynamicPressure(AltitudeM(s), getAirspeed(s)[1]),
                         1000000),
                  dt, 100000)
    ELSE angularVelocity

Accelerated(s, dt, angularVelocity) ==
    The({ Rotate(s, dt, damped) : damped \in {Damped(s, dt, angularVelocity)} })

\* s is the state after the gimbal has moved.
Torqued(s, config, thrust, dt) ==
    The({ Accelerated(s, dt, s.angularVelocity + Quot(totalAngularAccel * dt, 1000)) :
          totalAngularAccel \in
              {calculateAngularAcceleration(s, config, thrust, s.gimbalAngle)} })

\* integrateRotationalDynamics(thrust, dt) without a local frame (the
\* aerodynamic torque is off): the new gimbalAngle, angularVelocity, rocketAngle.
integrateRotationalDynamics(s, config, thrust, dt) ==
    The({ Torqued([s EXCEPT !.gimbalAngle = newGimbalAngle], config, thrust, dt) :
          newGimbalAngle \in
              {updateGimbalAngle(s, config, s.commandedGimbal, s.gimbalAngle, dt)} })

\* The unit vector of the thrust as <<along local up, along local east>>,
\* permille: the body axis turned by the gimbal angle.
getRocketThrustDirection(s) ==
    << Cos(s.rocketAngle + s.gimbalAngle), Sin(s.rocketAngle + s.gimbalAngle) >>

calculateCommandedGimbal(s, config, targetPitch) ==
    LET currentPitch == 90000 - s.rocketAngle
        pitchError == targetPitch - currentPitch
        desiredAngularVel == Quot(0 - pitchError, 2)
        angularVelError == desiredAngularVel - s.angularVelocity
        \* -Kp * pitchError + Kd * angularVelError, Kp = 1.5, Kd = 0.8
        gimbalCommand == Quot(8 * angularVelError - 15 * pitchError, 10)
    IN  IF s.currentStage < Len(config.stages)
        THEN LET maxGimbal == CurrentStage(s, config).gimbalMaxAngle
             IN  Max(0 - maxGimbal, Min(maxGimbal, gimbalCommand))
        ELSE gimbalCommand

-----------------------------------------------------------------------------
(* orbital.js                                                              *)

\* Infinity, as apoapsis / semiMajorAxis of an escape trajectory and as a time
\* that never comes; larger than every finite quantity it is compared with.
Infinity == 2000000000

\* v * v in m^2/s^2 for the velocity components in mm/s
SpeedSquared(s) ==
    MulDiv(s.vVertical, s.vVertical, 1000000)
    + MulDiv(s.vHorizontal, s.vHorizontal, 1000000)

\* The closed orbit of semi-major axis a and eccentricity e; ae = a * e.
Apsides(a, e, ae) ==
    [ apoapsis |-> a + ae - EARTH_RADIUS,
      periapsis |-> a - ae - EARTH_RADIUS,
      semiMajorAxis |-> a, eccentricity |-> e, isEscape |-> FALSE ]

Ellipse(a, e) == The({ Apsides(a, e, ae) : ae \in {MulDiv(a, e, 1000000)} })

\* Math.sqrt(Math.max(0, 1 + 2 * energy * h * h / (mu * mu))), parts per
\* million.  The angular momentum x * vy - y * vx is -r * vHorizontal, so
\* 2 * energy * h^2 / mu^2 = (v^2 / (mu / r) - 2) * (vHorizontal^2 / (mu / r)).
Eccentricity(v2, vh2, muOverR) ==
    Sqrt(Max(0, 1000000 + MulDiv(MulDiv(v2, 1000000, muOverR) - 2000000,
                                 MulDiv(vh2, 1000000, muOverR), 1000000))
         * 100) * 100

\* energy = v^2 / 2 - mu / r in m^2/s^2.  A semi-major axis beyond 10^9 m is
\* given as Infinity.
OrbitOf(r, energy, v2, vh2, muOverR) ==
    IF energy >= 0 \/ 0 - 2 * energy < 400000
    THEN [ apoapsis |-> Infinity, periapsis |-> r - EARTH_RADIUS,
           semiMajorAxis |-> Infinity, eccentricity |-> 1000000,
           isEscape |-> TRUE ]
    ELSE The({ Ellipse(a, e) : a \in {MulDiv(MU_E6, 1000000, 0 - 2 * energy)},
                               e \in {Eccentricity(v2, vh2, muOverR)} })

OrbitFrom(r, v2, vh2, muOverR) == OrbitOf(r, v2 \div 2 - muOverR, v2, vh2, muOverR)

\* A prediction that also reads the elapsed time of the state object.
predictOrbitOfElapsed(s) ==
    The({ OrbitFrom(Radius(s), v2, vh2, muOverR) :
          v2 \in {SpeedSquared(s) + s.time \div 1000},
          vh2 \in {MulDiv(s.vHorizontal, s.vHorizontal, 1000000)},
          muOverR \in {MuOver(Radius(s))} })

\* predictOrbit(stateObj): lengths in metres, eccentricity in parts per
\* million.
predictOrbit(s) ==
    The({ OrbitFrom(Radius(s), v2, vh2, muOverR) :
          v2 \in {SpeedSquared(s)},
          vh2 \in {MulDiv(s.vHorizontal, s.vHorizontal, 1000000)},
          muOverR \in {MuOver(Radius(s))} })

\* isp * g0 * Math.log(massInitial / massFinal) in m/s, g0 = 9.81
Tsiolkovsky(isp, massInitial, massFinal) ==
    The({ MulDiv(isp * 981, Ln(m0, m1), 100000000) :
          m0 \in {massInitial}, m1 \in {massFinal} })

RECURSIVE LaterStagesMass(_, _, _)
LaterStagesMass(s, config, i) ==
    IF i > Len(config.stages) THEN 0
    ELSE config.stages[i].dryMass + PropellantKg(s, i) + LaterStagesMass(s, config, i + 1)

\* Tsiolkovsky for stage i burning its propellant from massInitial; 0 for an
\* empty stage.
StageDeltaV(s, config, i, massInitial) ==
    IF s.propellantRemaining[i] > 0
    THEN Tsiolkovsky(config.stages[i].ispVac, massInitial,
                     massInitial - PropellantKg(s, i))
    ELSE 0

RECURSIVE FutureStagesDeltaV(_, _, _)
FutureStagesDeltaV(s, config, i) ==
    IF i > Len(config.stages) THEN 0
    ELSE StageDeltaV(s, config, i,
                     config.payload.mass + LaterStagesMass(s, config, i))
         + FutureStagesDeltaV(s, config, i + 1)

computeRemainingDeltaV(s, config) ==
    (IF s.currentStage < Len(config.stages)
     THEN StageDeltaV(s, config, s.currentStage + 1,
                      config.payload.mass
                        + (IF s.fairingJettisoned THEN 0 ELSE config.fairing.mass)
                        + LaterStagesMass(s, config, s.currentStage + 1))
     ELSE 0)
    + FutureStagesDeltaV(s, config, s.currentStage + 2)

-----------------------------------------------------------------------------
(* guidance.js                                                             *)

\* The value resetGuidance() assigns (and the module-level initial value).
InitialGuidanceState ==
    [ phase |-> "pre-launch",
      lastCommandedPitch |-> 90000,
      throttle |-> 1000,
      lastFlightPathAngle |-> 90000,
      isRetrograde |-> FALSE,
      circularizationBurnStarted |-> FALSE,
      retrogradeBurnStarted |-> FALSE ]

\* STEP 3 of computeGuidance: Math.sqrt(mu / targetRadius), m/s.
TargetCircularVelocity ==
    Sqrt(MuOver(EARTH_RADIUS + GUIDANCE_CONFIG.targetAltitude))

\* circularizationBurnTime / retrogradeBurnTime: deltaV * mass / thrust, ms.
BurnTime(deltaV, sn) ==
    IF sn.currentStage < Len(ROCKET_CONFIG.stages)
    THEN IF ROCKET_CONFIG.stages[sn.currentStage + 1].thrustVac > 0
         THEN MulDiv(sn.currentMass, deltaV * 1000,
                     ROCKET_CONFIG.stages[sn.currentStage + 1].thrustVac)
         ELSE 0
    ELSE 0

\* Math.sqrt(mu * (2 / r - 1 / a)); 1 / Infinity is 0.
VisViva(r, a) ==
    IF r = Infinity THEN 0
    ELSE Sqrt(2 * MuOver(r) - (IF a = Infinity THEN 0 ELSE MuOver(a)))

\* Math.max(0.1, x / 50000) as a throttle in permille.
ThrottleToGo(x) == IF x < 50000 THEN Max(100, x \div 50) ELSE 1000

\* altitude / Math.max(1, speed) in milliseconds, for lengths in metres and
\* speeds in m/s; beyond 2 * 10^6 s it is given as Infinity.
TimeToReach(altitude, speed) ==
    IF altitude = Infinity \/ altitude \div Max(1, speed) > 2000000 THEN Infinity
    ELSE MulDiv(altitude, 1000, Max(1, speed))

\* orbit.apoapsis - altitude
AltitudeToApoapsis(sn) ==
    IF sn.orbit.apoapsis = Infinity THEN Infinity ELSE sn.orbit.apoapsis - sn.altitude

\* "ESTIMATE TIME TO APOAPSIS"
TimeToApoapsis(sn) ==
    IF sn.vVertical > 0 /\ AltitudeToApoapsis(sn) > 0
    THEN TimeToReach(AltitudeToApoapsis(sn), sn.vVertical)
    ELSE 0

\* "CALCULATE CIRCULARIZATION DELTA-V": Math.max(0, v_circular - v_at_apo)
CircularizationDeltaV(orbit) ==
    IF orbit.apoapsis = Infinity THEN 0
    ELSE Max(0, Sqrt(MuOver(EARTH_RADIUS + orbit.apoapsis))
                - VisViva(EARTH_RADIUS + orbit.apoapsis, orbit.semiMajorAxis))

StartsCircularization(sn, timeToApoapsis, circularizationBurnTime) ==
    /\ timeToApoapsis <= circularizationBurnTime \div 2
    /\ circularizationBurnTime > 0
    /\ sn.orbit.periapsis < GUIDANCE_CONFIG.targetAltitude

shouldStartCircularization(sn) ==
    StartsCircularization(sn, TimeToApoapsis(sn),
                          BurnTime(CircularizationDeltaV(sn.orbit), sn))

nearApoapsis(sn) ==
    \/ AltitudeToApoapsis(sn) < 50000 /\ ~(sn.vVertical > 0)
    \/ TimeToApoapsis(sn) < 5000

\* PHASE 3: the time to the periapsis.
TimeToPeriapsis(sn) ==
    IF ~(sn.vVertical > 0) /\ sn.altitude - sn.orbit.periapsis > 0
    THEN TimeToReach(sn.altitude - sn.orbit.periapsis, 0 - sn.vVertical)
    ELSE IF sn.vVertical > 0 THEN Infinity ELSE 0

\* Math.max(0, v_at_peri - v_peri_target) for the periapsis radius r_peri
RetrogradeDeltaVAt(r_peri, semiMajorAxis) ==
    Max(0, VisViva(r_peri, semiMajorAxis)
           - VisViva(r_peri, (r_peri + EARTH_RADIUS + GUIDANCE_CONFIG.targetAltitude)
                               \div 2))

RetrogradeDeltaV(orbit) ==
    RetrogradeDeltaVAt(EARTH_RADIUS + orbit.periapsis, orbit.semiMajorAxis)

RetrogradeBurnTimeFor(sn, retrogradeDeltaV) ==
    IF retrogradeDeltaV > 0 THEN BurnTime(retrogradeDeltaV, sn) ELSE 0

StartsRetrograde(sn, timeToPeriapsis, retrogradeBurnTime) ==
    /\ ~(sn.vVertical > 0)
    /\ timeToPeriapsis <= retrogradeBurnTime \div 2
    /\ timeToPeriapsis < Infinity
    /\ retrogradeBurnTime > 0

shouldStartRetrograde(sn) ==
    StartsRetrograde(sn, TimeToPeriapsis(sn),
                     RetrogradeBurnTimeFor(sn, RetrogradeDeltaV(sn.orbit)))

Decision(correction, throttle, reason, isRetrograde) ==
    [ correction |-> correction, throttle |-> throttle, reason |-> reason,
      isRetrograde |-> isRetrograde ]

\* PHASE 1: apoapsis below target.
RaiseApoapsis(deficit) ==
    Decision(Max(0 - GUIDANCE_CONFIG.maxPitchCorrection, 0 - (deficit \div 5)),
             ThrottleToGo(deficit),
             IF deficit < 50000 THEN "Raising apoapsis - throttling down"
             ELSE "Raising apoapsis - full throttle",
             FALSE)

\* PHASE 2: apoapsis at or above target, periapsis below.
Circularize(sn, periDeficit, starts, near) ==
    IF starts \/ near
    THEN Decision(0, ThrottleToGo(periDeficit),
                  IF periDeficit < 50000 THEN "Circularizing - throttling down"
                  ELSE IF near THEN "At apoapsis - circularizing"
                  ELSE "Starting circularization",
                  FALSE)
    ELSE IF sn.vVertical > 0
    THEN Decision(0, 0, "Coasting to burn start", FALSE)
    ELSE Decision(0, ThrottleToGo(periDeficit),
                  IF periDeficit < 50000
                  THEN "Past apoapsis - circularizing (throttled)"
                  ELSE "Past apoapsis - circularizing",
                  FALSE)

\* PHASE 3: apoapsis too high, periapsis at target.
LowerApoapsis(apoError, starts) ==
    IF starts
    THEN Decision(0, ThrottleToGo(apoError),
                  IF apoError < 50000
                  THEN "Retrograde at periapsis - throttling down"
                  ELSE "Starting retrograde burn",
                  TRUE)
    ELSE Decision(0, 0, "Coasting to retrograde burn", FALSE)

\* The feedback logic without a tolerance band.
FeedbackGuidanceExact(sn, apoError, periError) ==
    IF apoError < 0 THEN RaiseApoapsis(0 - apoError)
    ELSE IF periError < 0
    THEN Circularize(sn, 0 - periError, shouldStartCircularization(sn), nearApoapsis(sn))
    ELSE LowerApoapsis(apoError, shouldStartRetrograde(sn))

\* "FEEDBACK-BASED GUIDANCE LOGIC", tolerance = 10000
FeedbackGuidance(sn, apoError, periError) ==
    IF apoError < 0 - 10000 THEN RaiseApoapsis(0 - apoError)
    ELSE IF periError < 0 - 10000
    THEN Circularize(sn, 0 - periError, shouldStartCircularization(sn), nearApoapsis(sn))
    ELSE IF periError >= 0 - 10000 /\ apoError > 10000
    THEN LowerApoapsis(apoError, shouldStartRetrograde(sn))
    ELSE Decision(0, 0, "Orbit achieved - coasting", FALSE)

\* orbit.apoapsis - GUIDANCE_CONFIG.targetAltitude
ApoapsisError(orbit) ==
    IF orbit.apoapsis = Infinity THEN Infinity
    ELSE orbit.apoapsis - GUIDANCE_CONFIG.targetAltitude

\* "PRIORITY 4: VELOCITY - Throttle control", for a commanded throttle # 0
PrecisionThrottle(sn, velocityDeficit) ==
    IF /\ Abs(ApoapsisError(sn.orbit)) < 50000
       /\ sn.orbit.periapsis > 0
       /\ sn.remainingDeltaV * 1000
             > velocityDeficit * GUIDANCE_CONFIG.throttleDownMargin
    THEN Max(GUIDANCE_CONFIG.minThrottle,
             IF sn.remainingDeltaV = 0 THEN 0 - Infinity
             ELSE Quot(velocityDeficit * 1000, sn.remainingDeltaV))
    ELSE 1000

\* The throttle control leaving the throttle of the feedback logic alone.
ThrottleControlOfFeedback(sn, decision) ==
    [ pitch |-> sn.flightPathAngle + decision.correction,
      throttle |-> decision.throttle,
      reason |-> decision.reason,
      isRetrograde |-> decision.isRetrograde ]

ThrottleControl(sn, decision) ==
    [ pitch |-> sn.flightPathAngle + decision.correction,
      throttle |-> IF decision.throttle # 0
                   THEN PrecisionThrottle(sn, TargetCircularVelocity - sn.vHorizontal)
                   ELSE 0,
      reason |-> decision.reason,
      isRetrograde |-> decision.isRetrograde ]

\* The "ABOVE ATMOSPHERE" branch: pitch, throttle, reason and isRetrograde.
VacuumGuidance(gs, sn) ==
    The({ ThrottleControl(sn, decision) :
          decision \in {FeedbackGuidance(sn, ApoapsisError(sn.orbit),
                                         sn.orbit.periapsis
                                           - GUIDANCE_CONFIG.targetAltitude)} })


\* 90 - altitudeFraction^2 * 80, millidegrees
MinPitchOf(altitudeFraction) == 90000 - (altitudeFraction * altitudeFraction * 80) \div 1000

MinPitchForAltitude(sn) ==
    MinPitchOf(Min(1000, (sn.altitude * 1000) \div GUIDANCE_CONFIG.atmosphereLimit))

\* (g * cos(gamma) / velocity) * 180 / PI, millidegrees per second
NaturalTurnRate(sn) ==
    Quot(Quot(sn.gravity * Cos(sn.flightPathAngle), 1000) * 57296, 1000 * sn.velocity)

ActualTurnRate(gs, sn, dt) ==
    IF dt > 0
    THEN Quot((gs.lastFlightPathAngle - sn.flightPathAngle) * 1000, dt)
    ELSE 0

\* actualTurnRate - naturalTurnRate; velocity = 0 makes naturalTurnRate
\* +Infinity or -Infinity.
TurnRateExcess(gs, sn, dt) ==
    IF sn.velocity = 0
    THEN IF Cos(sn.flightPathAngle) >= 0 THEN 0 - Infinity ELSE Infinity
    ELSE ActualTurnRate(gs, sn, dt) - NaturalTurnRate(sn)

TurnCorrection(turnRateExcess) ==
    IF turnRateExcess > 500
    THEN IF turnRateExcess = Infinity THEN 5000 ELSE Min(5000, turnRateExcess * 2)
    ELSE 0

\* correction, raised by 0.3 of what the pitch lacks to minPitchForAltitude
PitchCorrection(basePitch, minPitchForAltitude, turnCorrection) ==
    IF basePitch + turnCorrection < minPitchForAltitude
    THEN turnCorrection
           + Quot((minPitchForAltitude - (basePitch + turnCorrection)) * 3, 10)
    ELSE turnCorrection

PitchAbove(basePitch, minPitchForAltitude, turnCorrection) ==
    Max(minPitchForAltitude,
        basePitch + PitchCorrection(basePitch, minPitchForAltitude, turnCorrection))

\* The "PRIORITY 1: HEIGHT" branch after the pitch kick, below max Q:
\* prograde following with the turn-rate and minimum-pitch constraints.
AtmosphericAscentPitch(gs, sn, dt) ==
    The({ PitchAbove(sn.flightPathAngle, MinPitchForAltitude(sn),
                     TurnCorrection(turnRateExcess)) :
          turnRateExcess \in {TurnRateExcess(gs, sn, dt)} })

\* (time - pitchKickStart) / (pitchKickEnd - pitchKickStart), permille
KickProgress(time) ==
    ((time - GUIDANCE_CONFIG.pitchKickStart) * 1000)
        \div (GUIDANCE_CONFIG.pitchKickEnd - GUIDANCE_CONFIG.pitchKickStart)

\* (1 - Math.cos(progress * Math.PI)) / 2
SmoothProgress(progress) == (1000 - Cos(progress * 180)) \div 2

VacuumLogic(gs, v) ==
    [ phase |-> "vacuum-guidance", pitch |-> v.pitch,
      throttle |-> v.throttle, reason |-> v.reason,
      isRetrograde |-> v.isRetrograde,
      lastFlightPathAngle |-> gs.lastFlightPathAngle ]

\* STEP 4 without the max-Q protection.
GuidanceLogicWithoutMaxQ(gs, sn, dt) ==
    IF sn.altitude < GUIDANCE_CONFIG.atmosphereLimit
    THEN IF sn.time < GUIDANCE_CONFIG.pitchKickStart
         THEN [ phase |-> "vertical-ascent", pitch |-> 90000, throttle |-> 1000,
                reason |-> "Clearing pad - vertical",
                isRetrograde |-> gs.isRetrograde,
                lastFlightPathAngle |-> gs.lastFlightPathAngle ]
         ELSE IF sn.time < GUIDANCE_CONFIG.pitchKickEnd
         THEN [ phase |-> "pitch-kick",
                pitch |-> 90000 - (SmoothProgress(KickProgress(sn.time))
                             * (90000 - GUIDANCE_CONFIG.initialPitch)) \div 1000,
                throttle |-> 1000,
                reason |-> "Pitch kick - initiating gravity turn",
                isRetrograde |-> gs.isRetrograde,
                lastFlightPathAngle |-> gs.lastFlightPathAngle ]
         ELSE [ phase |-> "atmospheric-ascent",
                pitch |-> AtmosphericAscentPitch(gs, sn, dt),
                throttle |-> 1000,
                reason |-> "Atmospheric ascent",
                isRetrograde |-> gs.isRetrograde,
                lastFlightPathAngle |-> sn.flightPathAngle ]
    ELSE The({ VacuumLogic(gs, v) : v \in {VacuumGuidance(gs, sn)} })

\* STEP 4: <<phase, commandedPitch, commandedThrottle, reason, isRetrograde,
\*           lastFlightPathAngle>> before the constraints of STEP 5.
GuidanceLogic(gs, sn, dt) ==
    IF sn.altitude < GUIDANCE_CONFIG.atmosphereLimit
    THEN IF sn.time < GUIDANCE_CONFIG.pitchKickStart
         THEN [ phase |-> "vertical-ascent", pitch |-> 90000, throttle |-> 1000,
                reason |-> "Clearing pad - vertical",
                isRetrograde |-> gs.isRetrograde,
                lastFlightPathAngle |-> gs.lastFlightPathAngle ]
         ELSE IF sn.time < GUIDANCE_CONFIG.pitchKickEnd
         THEN [ phase |-> "pitch-kick",
                pitch |-> 90000 - (SmoothProgress(KickProgress(sn.time))
                             * (90000 - GUIDANCE_CONFIG.initialPitch)) \div 1000,
                throttle |-> 1000,
                reason |-> "Pitch kick - initiating gravity turn",
                isRetrograde |-> gs.isRetrograde,
                lastFlightPathAngle |-> gs.lastFlightPathAngle ]
         ELSE IF sn.dynamicPressure * 10 > GUIDANCE_CONFIG.maxQ * 8
         THEN [ phase |-> "max-q-protection", pitch |-> sn.flightPathAngle,
                throttle |-> 1000,
                reason |-> "Max Q - following prograde exactly",
                isRetrograde |-> gs.isRetrograde,
                lastFlightPathAngle |-> gs.lastFlightPathAngle ]
         ELSE [ phase |-> "atmospheric-ascent",
                pitch |-> AtmosphericAscentPitch(gs, sn, dt),
                throttle |-> 1000,
                reason |-> "Atmospheric ascent",
                isRetrograde |-> gs.isRetrograde,
                lastFlightPathAngle |-> sn.flightPathAngle ]
    ELSE The({ VacuumLogic(gs, v) : v \in {VacuumGuidance(gs, sn)} })

\* STEP 5, first half: Math.max(-5, Math.min(90, commandedPitch)).
ClampPitch(pitch) == Max(0 - 5000, Min(90000, pitch))

\* STEP 5, second half: the rotation-rate limit, applied only if (dt > 0).
RateLimit(gs, pitch, dt) ==
    IF dt > 0 /\ Abs(pitch - gs.lastCommandedPitch)
                    > (GUIDANCE_CONFIG.maxPitchRate * dt) \div 1000
    THEN gs.lastCommandedPitch
           + Sign(pitch - gs.lastCommandedPitch)
               * ((GUIDANCE_CONFIG.maxPitchRate * dt) \div 1000)
    ELSE pitch

\* "Store for next frame" and the returned command.
GuidanceResult(gs, logic, commandedPitch) ==
    [ pitch |-> commandedPitch,
      throttle |-> logic.throttle,
      phase |-> logic.phase,
      reason |-> logic.reason,
      guidanceState |->
          [ gs EXCEPT !.lastCommandedPitch = commandedPitch,
                      !.phase = logic.phase,
                      !.throttle = logic.throttle,
                      !.isRetrograde = logic.isRetrograde,
                      !.lastFlightPathAngle = logic.lastFlightPathAngle ] ]

\* STEP 5: APPLY CONSTRAINTS
Constrain(gs, logic, dt) ==
    The({ GuidanceResult(gs, logic, commandedPitch) :
          commandedPitch \in {RateLimit(gs, ClampPitch(logic.pitch), dt)} })

\* computeGuidance(state, dt): the returned command and the guidanceState the
\* call leaves behind.  sn holds what STEPS 1-3 read from the vehicle state.
computeGuidance(gs, sn, dt) ==
    The({ Constrain(gs, logic, dt) : logic \in {GuidanceLogic(gs, sn, dt)} })

resetGuidance == InitialGuidanceState

-----------------------------------------------------------------------------
(* state.js and events.js                                                  *)

\* null, as burnStartTime
Null == 0 - 1

\* addEvent(text): the log keeps the texts (the time stamp is state.time).
addEvent(s, text) == [s EXCEPT !.events = Append(@, text)]

Logged(s, text) == \E i \in DOMAIN s.events : s.events[i] = text

\* The attitude a mission starts with: upright, at rest, gimbal centred.
InitialAttitude ==
    [ rocketAngle |-> 0, angularVelocity |-> 0, gimbalAngle |-> 0,
      commandedGimbal |-> 0 ]

\* The operator's gimbal target and state.settings.controlMode before any
\* click on the control-mode buttons.
InitialControls == [ manualGimbal |-> 0, controlMode |-> "turnrate" ]

\* initState(): the vehicle on the pad, moving with the ground.
initState(gameMode) ==
    [ running |-> FALSE, time |-> 0, timeWarp |-> 1,
      altitude |-> 0, vVertical |-> 0,
      vHorizontal |-> MulDiv(EARTH_RADIUS, EARTH_ROTATION, 1000000),
      currentStage |-> 0,
      propellantRemaining |-> << ROCKET_CONFIG.stages[1].propellantMass * 1000,
                                 ROCKET_CONFIG.stages[2].propellantMass * 1000 >>,
      fairingJettisoned |-> FALSE, maxQ |-> 0, events |-> << >>,
      engineOn |-> FALSE, burnMode |-> "none", burnStartTime |-> Null,
      guidancePhase |-> "pre-launch", guidancePitch |-> 90000,
      guidanceThrottle |-> 1000, gameMode |-> gameMode,
      rocketAngle |-> InitialAttitude.rocketAngle,
      angularVelocity |-> InitialAttitude.angularVelocity,
      gimbalAngle |-> InitialAttitude.gimbalAngle,
      commandedGimbal |-> InitialAttitude.commandedGimbal,
      manualPitch |-> IF gameMode = "manual" THEN 90000 ELSE Null,
      manualGimbal |-> InitialControls.manualGimbal,
      controlMode |-> InitialControls.controlMode ]

\* spawnInOrbit(altitude): a running vehicle on the circular orbit at that
\* altitude (metres), second stage with a tenth of its propellant.
spawnInOrbit(gameMode, altitude) ==
    [ initState(gameMode) EXCEPT
        !.running = TRUE,
        !.altitude = altitude * 1000,
        !.vHorizontal = Sqrt(MuOver(EARTH_RADIUS + altitude) * 25) * 200,
        !.currentStage = 1,
        !.propellantRemaining = << 0, ROCKET_CONFIG.stages[2].propellantMass * 100 >>,
        !.fairingJettisoned = TRUE,
        !.events = << "Spawned in orbit" >>,
        !.guidancePhase = "orbit", !.guidancePitch = 0, !.guidanceThrottle = 0 ]

ORBITAL_SPAWN_ALTITUDE == 500000

resetCurrentMissionKeepsLog(s) ==
    IF s.gameMode = "orbital" THEN spawnInOrbit(s.gameMode, ORBITAL_SPAWN_ALTITUDE)
    ELSE [initState(s.gameMode) EXCEPT !.events = s.events, !.maxQ = s.maxQ]

\* resetCurrentMission(): state.js
resetCurrentMission(s) ==
    IF s.gameMode = "orbital" THEN spawnInOrbit(s.gameMode, ORBITAL_SPAWN_ALTITUDE)
    ELSE initState(s.gameMode)

-----------------------------------------------------------------------------
(* main.js: update(dt), split at the boundaries of its sub-step loop.      *)
(* tick.pc is "idle" between two frames, "step" inside the loop and "end"  *)
(* after it; the other fields of tick are the constants update() computes  *)
(* before the loop.                                                        *)

IdleTick == [ pc |-> "idle", dt |-> 0, mass |-> 0, altitude |-> 0,
              burnActive |-> FALSE, steps |-> 0, stepDt |-> 0, step |-> 0 ]

\* A stepper that advances by the host's nominal frame period whatever delta
\* the frame measured.
SimulatedDeltaOfPeriod(s, wallDt) == Min(env.period * s.timeWarp, 1000)

\* dt *= state.timeWarp; if (dt > maxDt) dt = maxDt
SimulatedDelta(s, wallDt) == Min(wallDt * s.timeWarp, 1000)

\* state.gameMode === 'orbital' || state.time > 600 || (!engineOn && altitude > 150000)
pitchProgramComplete(s) ==
    \/ s.gameMode = "orbital"
    \/ s.time > 600000
    \/ ~s.engineOn /\ AltitudeM(s) > 150000

\* thrustDir is set before the loop: a burn mode steers this tick.
BurnSteers(s) == s.burnMode # "none" /\ pitchProgramComplete(s) /\ AltitudeM(s) > 150000

\* "Enable engine for burn modes"
EnableEngineForBurn(s, config) ==
    IF /\ BurnSteers(s)
       /\ ~s.engineOn
       /\ StageInRange(s, config)
       /\ CurrentPropellant(s) > 0
    THEN [s EXCEPT !.engineOn = TRUE]
    ELSE s

\* Adaptive sub-stepping: <<actualSteps, actualStepDt>> for a tick of dt ms.
maxStepSize(s) == IF AltitudeM(s) > 150000 /\ ~s.engineOn THEN 10 ELSE 50

SubStepsFixed(s, dt) == << 1, dt >>

SubSteps(s, dt) ==
    LET steps == Max(1, CeilDiv(dt, maxStepSize(s)))
        actualSteps == Min(steps, 1000)
    IN  << actualSteps, dt \div actualSteps >>

\* The pitch of a burn mode's direction: Math.atan2(dotUp, dotEast).
BurnTargetPitch(s) ==
    CASE s.burnMode = "prograde"    -> Atan2(s.vVertical, s.vHorizontal)
      [] s.burnMode = "retrograde"  -> Atan2(0 - s.vVertical, 0 - s.vHorizontal)
      [] s.burnMode = "radial"      -> 90000
      [] s.burnMode = "anti-radial" -> 0 - 90000
      [] OTHER                      -> Atan2(s.vVertical, s.vHorizontal)

\* What STEPS 1-3 of computeGuidance read from the vehicle.
Sense(s, config) ==
    [ altitude |-> AltitudeM(s),
      velocity |-> Hypot(s.vVertical, s.vHorizontal) \div 1000,
      vVertical |-> Quot(s.vVertical, 1000),
      vHorizontal |-> Quot(s.vHorizontal, 1000),
      flightPathAngle |-> Atan2(s.vVertical, s.vHorizontal),
      dynamicPressure |-> DynamicPressure(AltitudeM(s), getAirspeed(s)[1]),
      gravity |-> getGravity(Radius(s)),
      orbit |-> predictOrbit(s),
      remainingDeltaV |-> computeRemainingDeltaV(s, config),
      currentMass |-> getTotalMass(s, config),
      currentStage |-> s.currentStage,
      time |-> s.time ]

\* reason.includes('Starting circularization') || reason.includes('circularizing')
AnnouncesCircularization(reason) ==
    reason \in { "Starting circularization", "At apoapsis - circularizing",
                 "Past apoapsis - circularizing",
                 "Past apoapsis - circularizing (throttled)" }

\* "Detect and log burn start events (only on first sub-step to avoid spam)"
StartsCircularizationBurn(s, gs, guidance, step) ==
    /\ step = 0
    /\ guidance.phase = "vacuum-guidance"
    /\ s.time >= 1500000
    /\ AnnouncesCircularization(guidance.reason)
    /\ ~gs.circularizationBurnStarted
    /\ s.engineOn
    /\ guidance.throttle > 0

StartsRetrogradeBurn(s, gs, guidance, step) ==
    /\ step = 0
    /\ guidance.phase = "vacuum-guidance"
    /\ guidance.reason = "Starting retrograde burn"
    /\ ~gs.retrogradeBurnStarted
    /\ s.engineOn
    /\ guidance.throttle > 0

\* The announcements made without regard to the one-shot flags.
AnnounceBurnsAgain(s, gs, guidance, step) ==
    << IF StartsRetrogradeBurn(s, InitialGuidanceState, guidance, step)
       THEN addEvent(IF StartsCircularizationBurn(s, InitialGuidanceState, guidance, step)
                     THEN addEvent(s, "Circularization burn start") ELSE s,
                     "Retrograde burn start")
       ELSE IF StartsCircularizationBurn(s, InitialGuidanceState, guidance, step)
       THEN addEvent(s, "Circularization burn start") ELSE s,
       [ gs EXCEPT
           !.circularizationBurnStarted =
               @ \/ StartsCircularizationBurn(s, InitialGuidanceState, guidance, step),
           !.retrogradeBurnStarted =
               @ \/ StartsRetrogradeBurn(s, InitialGuidanceState, guidance, step) ] >>

\* <<state, guidanceState>> after the announcements.
AnnounceBurns(s, gs, guidance, step) ==
    << IF StartsRetrogradeBurn(s, gs, guidance, step)
       THEN addEvent(IF StartsCircularizationBurn(s, gs, guidance, step)
                     THEN addEvent(s, "Circularization burn start") ELSE s,
                     "Retrograde burn start")
       ELSE IF StartsCircularizationBurn(s, gs, guidance, step)
       THEN addEvent(s, "Circularization burn start") ELSE s,
       [ gs EXCEPT
           !.circularizationBurnStarted =
               @ \/ StartsCircularizationBurn(s, gs, guidance, step),
           !.retrogradeBurnStarted =
               @ \/ StartsRetrogradeBurn(s, gs, guidance, step) ] >>

\* A sub-step that is not steered by computeGuidance.
Unguided(s, gs, targetPitch, throttle) ==
    [ targetPitch |-> targetPitch, throttle |-> throttle,
      state |-> s, guidanceState |-> gs, guided |-> FALSE, pitch |-> 0 ]

Announced(guidance, announced) ==
    [ targetPitch |-> IF announced[1].gameMode = "manual" /\ announced[1].manualPitch # Null
                      THEN announced[1].manualPitch
                      ELSE guidance.pitch,
      throttle |-> guidance.throttle,
      state |-> announced[1], guidanceState |-> announced[2],
      guided |-> TRUE, pitch |-> guidance.pitch ]

\* The guidance command recorded in the state for the display, then the
\* announcements.
Guided(s, t, guidance) ==
    Announced(guidance,
        AnnounceBurns([ s EXCEPT !.guidancePhase = guidance.phase,
                                 !.guidancePitch = guidance.pitch,
                                 !.guidanceThrottle = guidance.throttle ],
                      guidance.guidanceState, guidance, t.step))

\* The steering with the orbital coast at full throttle.
SteeringAtFullThrottle(s, gs, config, t) ==
    IF t.burnActive /\ s.burnMode # "none"
    THEN Unguided(s, gs, BurnTargetPitch(s), 1000)
    ELSE Unguided(s, gs, 90000, 1000)

\* The steering of one sub-step: the target pitch, the throttle, and the
\* state and guidanceState after the guidance call has been recorded.
Steering(s, gs, config, t) ==
    IF t.burnActive /\ s.burnMode # "none"
    THEN Unguided(s, gs, BurnTargetPitch(s), 1000)
    ELSE IF t.burnActive
    THEN Unguided(s, gs, 90000, 1000)
    ELSE IF s.gameMode = "orbital"
    THEN Unguided(s, gs,
                  IF s.vVertical # 0 \/ s.vHorizontal # 0
                  THEN Atan2(s.vVertical, s.vHorizontal) ELSE 90000,
                  0)
    ELSE The({ Guided(s, t, guidance) :
               guidance \in {computeGuidance(gs, sn, t.stepDt) : sn \in {Sense(s, config)}} })

\* thrust / mass along the thrust direction, <<up, east>> in mm/s^2
ThrustAcceleration(thrustAccel, thrustDir) ==
    << MulDiv(thrustAccel, thrustDir[1], 1000), MulDiv(thrustAccel, thrustDir[2], 1000) >>

\* drag / mass against the airspeed; air is the result of getAirspeed.
DragAlong(dragAccel, air) ==
    IF air[1] > 0
    THEN << 0 - MulDiv(dragAccel, air[2], air[1]), 0 - MulDiv(dragAccel, air[3], air[1]) >>
    ELSE << 0, 0 >>

DragAcceleration(s, config, mass, air) ==
    The({ DragAlong(dragAccel, air) :
          dragAccel \in {IF air[1] > 0
                         THEN MulDiv(getDrag(s, config, AltitudeM(s), air[1]), 1000, mass)
                         ELSE 0} })

\* Gravity, and the turning of the local frame along the path.
FrameAcceleration(s, r) ==
    << MulDiv(s.vHorizontal, s.vHorizontal, r) \div 1000 - getGravity(r),
       0 - Quot(MulDiv(s.vVertical, s.vHorizontal, r), 1000) >>

AddVectors(a, b, c) == << a[1] + b[1] + c[1], a[2] + b[2] + c[2] >>

Moved(s, dt, vUp, vEast) ==
    [ s EXCEPT !.vVertical = vUp, !.vHorizontal = vEast,
               !.altitude = s.altitude + Quot(vUp * dt, 1000) ]

\* Velocity first, then position with the new velocity.
Move(s, dt, a) ==
    The({ Moved(s, dt, s.vVertical + Quot(acceleration[1] * dt, 1000),
                s.vHorizontal + Quot(acceleration[2] * dt, 1000)) :
          acceleration \in {a} })

\* The symplectic Euler step on the local vertical and the local east.
Integrate(s, config, mass, thrust, dt) ==
    The({ Move(s, dt, AddVectors(thrustAcceleration, dragAcceleration,
                                 FrameAcceleration(s, Radius(s)))) :
          thrustAcceleration \in
              { ThrustAcceleration(thrustAccel, getRocketThrustDirection(s)) :
                    thrustAccel \in {MulDiv(thrust, 1000, mass)} },
          dragAcceleration \in
              { DragAcceleration(s, config, mass, air) : air \in {getAirspeed(s)} } })

\* "Propellant consumption per sub-step"
Consume(s, config, altitude, throttle, dt) ==
    IF s.engineOn /\ StageInRange(s, config)
    THEN [ s EXCEPT !.propellantRemaining[s.currentStage + 1] =
                        @ - MulDiv(getMassFlowRate(s, config, altitude, throttle),
                                   dt, 1000) ]
    ELSE s

\* The sub-step from the thrust on.  getMassFlowRate reads the altitude of
\* the start of the sub-step and the propellant the sub-step started with.
Propelled(s, config, t, altitudeStep, steer, thrustStep) ==
    << The({ Consume(moved, config, altitudeStep, steer.throttle, t.stepDt) :
             moved \in
                 { Integrate(rotated, config, t.mass, thrustStep, t.stepDt) :
                       rotated \in {integrateRotationalDynamics(s, config, thrustStep,
                                                                t.stepDt)} } }),
       steer.guidanceState, steer >>

\* s is the state with the commanded gimbal angle.
Thrusting(s, config, t, altitudeStep, steer) ==
    The({ Propelled(s, config, t, altitudeStep, steer, thrustStep) :
          thrustStep \in {getCurrentThrust(s, config, altitudeStep, steer.throttle)} })

\* The pitch controller alone.
CommandedGimbalOfController(s, config, targetPitch) ==
    calculateCommandedGimbal(s, config, targetPitch)

\* "In gimbal control mode for manual, use the direct manual gimbal input"
CommandedGimbal(s, config, targetPitch) ==
    IF s.gameMode = "manual" /\ s.controlMode = "gimbal"
    THEN s.manualGimbal
    ELSE calculateCommandedGimbal(s, config, targetPitch)

Steered(config, t, altitudeStep, steer) ==
    The({ Thrusting([steer.state EXCEPT !.commandedGimbal = commandedGimbal],
                    config, t, altitudeStep, steer) :
          commandedGimbal \in
              {CommandedGimbal(steer.state, config, steer.targetPitch)} })

\* One pass of the sub-step loop: <<state, guidanceState, steering>>.
SubStepBody(s, gs, config, t) ==
    The({ Steered(config, t, AltitudeM(s), steer) :
          steer \in {Steering(s, gs, config, t)} })

\* The depletion check without propellantRemaining[currentStage] = 0.
DepleteKeepingRemainder(s, config) ==
    IF StageInRange(s, config) /\ CurrentPropellant(s) <= 0
    THEN IF s.currentStage = 0
         THEN addEvent(addEvent(addEvent(
                  [s EXCEPT !.currentStage = 1],
                  "MECO"), "Stage separation"), "SES-1")
         ELSE LET cut == [addEvent(s, "SECO") EXCEPT !.engineOn = FALSE]
              IN  IF cut.burnMode # "none"
                  THEN [ addEvent(cut, "Burn ended - out of propellant") EXCEPT
                           !.burnMode = "none", !.burnStartTime = Null ]
                  ELSE cut
    ELSE s

\* "Check for stage depletion after all sub-steps"
Deplete(s, config) ==
    IF StageInRange(s, config) /\ CurrentPropellant(s) <= 0
    THEN LET emptied == [s EXCEPT !.propellantRemaining[s.currentStage + 1] = 0]
         IN  IF s.currentStage = 0
             THEN addEvent(addEvent(addEvent(
                      [emptied EXCEPT !.currentStage = 1],
                      "MECO"), "Stage separation"), "SES-1")
             ELSE LET cut == [addEvent(emptied, "SECO") EXCEPT !.engineOn = FALSE]
                  IN  IF cut.burnMode # "none"
                      THEN [ addEvent(cut, "Burn ended - out of propellant") EXCEPT
                               !.burnMode = "none", !.burnStartTime = Null ]
                      ELSE cut
    ELSE s

\* "Turn off burn mode if engine turns off"
EndBurnWithEngine(s) ==
    IF s.burnMode # "none" /\ ~s.engineOn /\ s.burnStartTime # Null
    THEN [ addEvent(s, "Burn ended") EXCEPT
             !.burnMode = "none", !.burnStartTime = Null ]
    ELSE s

\* "Update burn duration tracking"
TrackBurnStart(s) ==
    IF s.burnMode # "none" /\ s.burnStartTime = Null
    THEN [s EXCEPT !.burnStartTime = s.time]
    ELSE s

\* altitude is the altitude the tick started at, in metres.
\* The jettison without the test of the flag.
JettisonFairingAbove(s, config, altitude) ==
    IF altitude > config.fairingJettisonAlt
    THEN addEvent([s EXCEPT !.fairingJettisoned = TRUE], "Fairing jettison")
    ELSE s

JettisonFairing(s, config, altitude) ==
    IF ~s.fairingJettisoned /\ altitude > config.fairingJettisonAlt
    THEN addEvent([s EXCEPT !.fairingJettisoned = TRUE], "Fairing jettison")
    ELSE s

TrackMaxQ(s, altitude) ==
    The({ IF dynPress > s.maxQ THEN [s EXCEPT !.maxQ = dynPress] ELSE s :
          dynPress \in {DynamicPressure(altitude, getAirspeed(s)[1])} })

Milestone(s, due, text) == IF due /\ ~Logged(s, text) THEN addEvent(s, text) ELSE s

Milestones(s, altitude) ==
    Milestone(
        Milestone(
            Milestone(s, s.time >= 10000, "Gravity turn kick"),
            s.time >= 13000, "Gravity turn active - thrusting prograde"),
        altitude >= KARMAN_LINE, "Karman line - SPACE!")

\* telemetry.js updateTelemetry(): the burn mode is cleared while the burn
\* controls are hidden.
updateTelemetry(s) ==
    LET altitude == AltitudeM(s)
        complete == s.time > 600000 \/ (~s.engineOn /\ altitude > 150000)
        inOrbit == /\ altitude > 150000
                   /\ s.currentStage < Len(ROCKET_CONFIG.stages)
                   /\ complete
    IN  IF ~inOrbit /\ s.burnMode # "none"
        THEN [s EXCEPT !.burnMode = "none", !.burnStartTime = Null]
        ELSE s

\* Everything update() does after the loop.
BurnTracked(s, config) ==
    The({ TrackBurnStart(ended) :
          ended \in { EndBurnWithEngine(depleted) : depleted \in {Deplete(s, config)} } })

Recorded(s, altitude) ==
    The({ Milestones(tracked, altitude) : tracked \in {TrackMaxQ(s, altitude)} })

AfterLoop(s, config, t) ==
    The({ updateTelemetry([logged EXCEPT !.time = @ + t.dt]) :
          logged \in
              { Recorded(noFairing, t.altitude) :
                    noFairing \in
                        { JettisonFairing(burnOff, config, t.altitude) :
                              burnOff \in {BurnTracked(s, config)} } } })

-----------------------------------------------------------------------------
(* main.js loop(time) and update(dt) as actions; input.js handlers.        *)

SimUnchanged == UNCHANGED <<state, guidanceState, speedIdx, tick, call>>

\* if (!state.running) return;
NotRunningNever(s) == FALSE

NotRunning(s) == ~s.running

\* r < EARTH_RADIUS && state.time > 1
GroundImpactAtOnce(s) == s.altitude < 0

\* An impact check that a logged mission failure switches off.
GroundImpactOnce(s) ==
    s.altitude < 0 /\ s.time > 1000 /\ ~Logged(s, "MISSION FAILURE - Ground impact")

GroundImpact(s) == s.altitude < 0 /\ s.time > 1000

\* The frame's delta is the frame period unless the environment spends one
\* of its irregularities on it.
FrameAllowed(wallDt) == wallDt = env.period \/ env.budget > 0

FrameCost(wallDt) == IF wallDt = env.period THEN 0 ELSE 1

\* What update(dt) computes before its sub-step loop; sub is <<actualSteps,
\* actualStepDt>>.
BeforeLoop(s, config, dt, sub) ==
    [ pc |-> "step", dt |-> dt,
      mass |-> getTotalMass(s, config),
      altitude |-> AltitudeM(s),
      burnActive |-> BurnSteers(s),
      steps |-> sub[1], stepDt |-> sub[2],
      step |-> 0 ]

\* stages[currentStage]?.gimbalRate || 15, ?.gimbalMaxAngle || 5
ManualGimbalRate(s, config) ==
    IF StageInRange(s, config) /\ CurrentStage(s, config).gimbalRate # 0
    THEN CurrentStage(s, config).gimbalRate ELSE 15000

ManualGimbalLimit(s, config) ==
    IF StageInRange(s, config) /\ CurrentStage(s, config).gimbalMaxAngle # 0
    THEN CurrentStage(s, config).gimbalMaxAngle ELSE 5000

\* The operator's gimbal after cappedDt ms with the keys held: driven at the
\* gimbal rate to the limit, or returned to neutral at half the rate.
DrivenGimbal(gimbal, keys, rate, limit, cappedDt) ==
    CASE keys = "up"   -> Max(0 - limit, gimbal - (rate * cappedDt) \div 1000)
      [] keys = "down" -> Min(limit, gimbal + (rate * cappedDt) \div 1000)
      [] OTHER ->
             IF Abs(gimbal) * 2000 < rate * cappedDt THEN 0
             ELSE IF gimbal > 0 THEN gimbal - (rate * cappedDt) \div 2000
             ELSE gimbal + (rate * cappedDt) \div 2000

\* The operator's pitch target after cappedDt ms in turn rate mode.
TurnedPitch(pitch, keys, cappedDt) ==
    CASE keys = "up"   -> pitch + (GUIDANCE_CONFIG.maxPitchRate * cappedDt) \div 1000
      [] keys = "down" -> pitch - (GUIDANCE_CONFIG.maxPitchRate * cappedDt) \div 1000
      [] OTHER         -> pitch

\* "Clamp pitch to valid range"
ClampManualPitch(pitch) == Max(0 - 90000, Min(90000, pitch))

\* window.updateManualPitch(dt), dt the frame's delta before the time warp;
\* keys is what pitchUpHeld and pitchDownHeld hold.
updateManualPitch(s, config, dt, keys) ==
    IF s.gameMode = "manual" /\ s.running /\ s.manualPitch # Null
    THEN IF s.controlMode = "gimbal"
         THEN [ s EXCEPT
                  !.manualGimbal = DrivenGimbal(@, keys, ManualGimbalRate(s, config),
                                                ManualGimbalLimit(s, config),
                                                Min(dt * s.timeWarp, 1000)),
                  !.manualPitch = ClampManualPitch(90000 - s.rocketAngle) ]
         ELSE [ s EXCEPT
                  !.manualPitch = ClampManualPitch(TurnedPitch(@, keys,
                                                         Min(dt * s.timeWarp, 1000))) ]
    ELSE s

\* update(dt) from the ground-impact check to the sub-step loop; s is the
\* state after updateManualPitch.
Prologue(s, wallDt) ==
    IF GroundImpact(s)
    THEN /\ state' = addEvent([s EXCEPT !.running = FALSE],
                              "MISSION FAILURE - Ground impact")
         /\ UNCHANGED tick
    ELSE /\ state' = EnableEngineForBurn(s, getRocketConfig)
         /\ tick' = BeforeLoop(s, getRocketConfig,
                               SimulatedDelta(s, wallDt),
                               SubSteps(EnableEngineForBurn(s, getRocketConfig),
                                        SimulatedDelta(s, wallDt)))

\* loop(time) up to the sub-step loop of update(dt), dt = wallDt.
TickBegin(wallDt, maxTicks) ==
    /\ tick.pc = "idle"
    /\ UNCHANGED <<currentConfig, raised, guidanceState, speedIdx, call>>
    /\ IF NotRunning(state)
       THEN /\ env' = [env EXCEPT !.lastWallDt = wallDt, !.last = "skipped"]
            /\ UNCHANGED <<state, tick>>
       ELSE /\ env.ticks < maxTicks
            /\ FrameAllowed(wallDt)
            /\ env' = [env EXCEPT !.lastWallDt = wallDt, !.last = "stepped",
                                  !.ticks = @ + 1,
                                  !.budget = @ - FrameCost(wallDt)]
            /\ \E piloted \in {updateManualPitch(state, getRocketConfig, wallDt, env.keys)} :
                  Prologue(piloted, wallDt)

\* The assignments of one pass; r is the result of SubStepBody.
EndSubStep(r) ==
    /\ state' = r[1]
    /\ guidanceState' = r[2]
    /\ call' = IF r[3].guided
               THEN [ made |-> TRUE, dt |-> tick.stepDt, pitch |-> r[3].pitch,
                      previous |-> guidanceState.lastCommandedPitch ]
               ELSE call

\* One pass of the sub-step loop.
SubStep ==
    /\ tick.pc = "step"
    /\ \E r \in {SubStepBody(state, guidanceState, getRocketConfig, tick)} :
          EndSubStep(r)
    /\ tick' = [ tick EXCEPT !.step = @ + 1,
                             !.pc = IF tick.step + 1 >= tick.steps THEN "end" ELSE "step" ]
    /\ UNCHANGED <<currentConfig, raised, speedIdx, env>>

\* update(dt) after the loop.
TickEnd ==
    /\ tick.pc = "end"
    /\ state' = AfterLoop(state, getRocketConfig, tick)
    /\ tick' = IdleTick
    /\ UNCHANGED <<currentConfig, raised, guidanceState, speedIdx, call, env>>

\* An operator command: handlers run between two frames.
Command == tick.pc = "idle"

\* A mission is under way: from here on the operator's commands are counted.
UnderWay == state.running \/ state.time > 0

Spend == env' = [env EXCEPT !.budget = @ - 1]

\* startMission(mode, {}): main.js; the mode menu opens at start-up.
startMission(mode) ==
    /\ Command
    /\ state.gameMode = "none"
    /\ state' = IF mode = "orbital"
                THEN spawnInOrbit(mode, ORBITAL_SPAWN_ALTITUDE)
                ELSE initState(mode)
    /\ guidanceState' = resetGuidance
    /\ UNCHANGED <<currentConfig, raised, speedIdx, tick, call, env>>

\* The rocket builder writes a configuration before the mission starts.
BuildRocket(config) ==
    /\ Command
    /\ ~UnderWay
    /\ setRocketConfig(config)
    /\ UNCHANGED <<state, guidanceState, speedIdx, tick, call, env>>

\* The launch handler without the tests of the game mode.
LaunchClickInAnyMode ==
    /\ Command
    /\ IF ~state.running /\ state.time = 0
       THEN state' = addEvent([state EXCEPT !.running = TRUE, !.engineOn = TRUE],
                              "LIFTOFF!")
       ELSE UNCHANGED state
    /\ UNCHANGED <<currentConfig, raised, guidanceState, speedIdx, tick, call, env>>

\* click on launch-btn
LaunchClick ==
    /\ Command
    /\ IF ~state.running /\ state.time = 0
          /\ state.gameMode # "none" /\ state.gameMode # "orbital"
       THEN state' = addEvent([state EXCEPT !.running = TRUE, !.engineOn = TRUE],
                              "LIFTOFF!")
       ELSE UNCHANGED state
    /\ UNCHANGED <<currentConfig, raised, guidanceState, speedIdx, tick, call, env>>

PauseClick ==
    /\ Command
    /\ UnderWay
    /\ env.budget > 0
    /\ Spend
    /\ state' = IF state.running
                THEN addEvent([state EXCEPT !.running = FALSE], "PAUSED")
                ELSE addEvent([state EXCEPT !.running = TRUE], "RESUMED")
    /\ UNCHANGED <<currentConfig, raised, guidanceState, speedIdx, tick, call>>

ResetClick ==
    /\ Command
    /\ UnderWay
    /\ env.budget > 0
    /\ Spend
    /\ state' = resetCurrentMission(state)
    /\ guidanceState' = resetGuidance
    /\ UNCHANGED <<currentConfig, raised, speedIdx, tick, call>>

\* speeds = [1, 2, 5, 10, 25, 50, 100, 500, 1000]
speeds == << 1, 2, 5, 10, 25, 50, 100, 500, 1000 >>

SpeedClick ==
    /\ Command
    /\ speedIdx < MaxSpeedIdx
    /\ IF UnderWay THEN env.budget > 0 /\ Spend ELSE UNCHANGED env
    /\ speedIdx' = (speedIdx + 1) % Len(speeds)
    /\ state' = [state EXCEPT !.timeWarp = speeds[speedIdx' + 1]]
    /\ UNCHANGED <<currentConfig, raised, guidanceState, tick, call>>

REFUEL_AMOUNT == 5000

refuelUnclamped(s, config) ==
    IF StageInRange(s, config)
    THEN addEvent([ s EXCEPT !.propellantRemaining[s.currentStage + 1] =
                                 @ + REFUEL_AMOUNT * 1000 ],
                  "Refueled")
    ELSE s

\* click on refuel-btn; propellantRemaining is in grams
refuel(s, config) ==
    IF StageInRange(s, config)
    THEN addEvent(
             [ s EXCEPT !.propellantRemaining[s.currentStage + 1] =
                   Min(@ + REFUEL_AMOUNT * 1000,
                       CurrentStage(s, config).propellantMass * 1000) ],
             "Refueled")
    ELSE s

RefuelClick ==
    /\ Command
    /\ env.budget > 0
    /\ Spend
    /\ state' = refuel(state, getRocketConfig)
    /\ UNCHANGED <<currentConfig, raised, guidanceState, speedIdx, tick, call>>

stopBurn(s) ==
    IF s.burnMode # "none" /\ s.burnStartTime # Null
    THEN [ addEvent(s, "Burn ended") EXCEPT
             !.burnMode = "none", !.burnStartTime = Null, !.engineOn = FALSE ]
    ELSE s

\* mousedown on a burn button
BurnPress(mode) ==
    /\ Command
    /\ UnderWay
    /\ env.budget > 0
    /\ Spend
    /\ state' = IF pitchProgramComplete(state) /\ AltitudeM(state) > 150000
                THEN addEvent([ stopBurn(state) EXCEPT
                                  !.burnMode = mode, !.burnStartTime = state.time ],
                              "Burn started")
                ELSE state
    /\ UNCHANGED <<currentConfig, raised, guidanceState, speedIdx, tick, call>>

\* mouseup on a burn button
BurnRelease(mode) ==
    /\ Command
    /\ UnderWay
    /\ env.budget > 0
    /\ Spend
    /\ state' = IF state.burnMode = mode THEN stopBurn(state) ELSE state
    /\ UNCHANGED <<currentConfig, raised, guidanceState, speedIdx, tick, call>>

\* mousedown on pitch-up-btn / pitch-down-btn: key is "up" or "down"
PitchPress(key) ==
    /\ Command
    /\ state.gameMode = "manual"
    /\ env.keys = "none"
    /\ env.budget > 0
    /\ env' = [env EXCEPT !.keys = key, !.budget = @ - 1]
    /\ state' = IF state.manualPitch = Null
                THEN [ state EXCEPT !.manualPitch = IF state.guidancePitch # 0
                                                    THEN state.guidancePitch ELSE 90000 ]
                ELSE state
    /\ UNCHANGED <<currentConfig, raised, guidanceState, speedIdx, tick, call>>

\* mouseup on the pitch button held
PitchRelease ==
    /\ Command
    /\ env.keys # "none"
    /\ env' = [env EXCEPT !.keys = "none"]
    /\ UNCHANGED <<currentConfig, raised, state, guidanceState, speedIdx, tick, call>>

\* click on control-turnrate-btn / control-gimbal-btn
ControlModeClick(mode) ==
    /\ Command
    /\ state.controlMode # mode
    /\ env.budget > 0
    /\ Spend
    /\ state' = [state EXCEPT !.controlMode = mode, !.manualGimbal = 0]
    /\ UNCHANGED <<currentConfig, raised, guidanceState, speedIdx, tick, call>>

-----------------------------------------------------------------------------
(* The configuration interface under test: what the rocket builder and any *)
(* other caller may hand to setRocketConfig.                               *)

Stage1 == ROCKET_CONFIG.stages[1]

Stage2 == ROCKET_CONFIG.stages[2]

Without(obj, f) == [g \in DOMAIN obj \ {f} |-> obj[g]]

StageEntries ==
    { Stage1, Stage2,
      [Stage1 EXCEPT !.propellantMass = 500000],
      [Stage2 EXCEPT !.length = 100],
      Without(Stage2, "tankLengthRatio"),
      Without(Stage2, "diameter"),
      [kind |-> "null"], [kind |-> "undefined"], [kind |-> "prim"] }

StageArrays ==
    {<<>>, <<Stage1>>, <<Stage1, Stage2, Stage2>>}
    \cup {<<a, b>> : a \in StageEntries, b \in StageEntries}

BaseInput ==
    [ kind |-> "object", stagesIsArray |-> TRUE,
      fairingJettisonAlt |-> 110000, totalLength |-> 700 ]

WithField(obj, f, v) == [g \in DOMAIN obj \cup {f} |-> IF g = f THEN v ELSE obj[g]]

WithDensity(c, d) == IF d = NaN THEN c ELSE WithField(c, "propellantDensity", d)

WithPayload(c, b) == IF b THEN WithField(c, "payload", ROCKET_CONFIG.payload) ELSE c

WithFairing(c, b) == IF b THEN WithField(c, "fairing", ROCKET_CONFIG.fairing) ELSE c

FullInput(st, d) ==
    WithDensity(WithPayload(WithFairing(WithField(BaseInput, "stages", st),
                                        TRUE), TRUE), d)

ConfigInputs ==
    { [kind |-> "null"],
      WithPayload(WithFairing(BaseInput, TRUE), TRUE),
      [FullInput(<<Stage1, Stage2>>, 923) EXCEPT !.stagesIsArray = FALSE],
      WithPayload(WithField(BaseInput, "stages", <<Stage1, Stage2>>), TRUE),
      WithFairing(WithField(BaseInput, "stages", <<Stage1, Stage2>>), TRUE),
      WithField(BaseInput, "stages", <<Stage2, Stage2>>) }
    \cup { FullInput(st, d) : st \in StageArrays, d \in {NaN, 0, 500, 923} }

\* A vehicle of the rocket builder that burns its stages out within seconds:
\* 500 MN and 120 MN at an Isp of 250 s, fairing jettison above 5 km.
SprintInput ==
    [ FullInput(<< [Stage1 EXCEPT !.thrust = 500000000, !.thrustVac = 500000000,
                                  !.isp = 250, !.ispVac = 250],
                   [Stage2 EXCEPT !.thrust = 120000000, !.thrustVac = 120000000,
                                  !.isp = 250, !.ispVac = 250] >>, 923)
        EXCEPT !.fairingJettisonAlt = 5000 ]

\* A vehicle whose engines give no thrust.
ZeroThrustInput ==
    FullInput(<< [Stage1 EXCEPT !.thrust = 0, !.thrustVac = 0],
                 [Stage2 EXCEPT !.thrust = 0, !.thrustVac = 0] >>, 923)

FlightInputs == {SprintInput, ZeroThrustInput}

-----------------------------------------------------------------------------
(* Initial states.                                                         *)

\* rocketConfig.js: let currentConfig = normalizeConfig(ROCKET_CONFIG)
StoreInit ==
    /\ currentConfig = normalizeConfig(ROCKET_CONFIG)
    /\ raised = FALSE

NoCall == [ made |-> FALSE, dt |-> 0, pitch |-> 0, previous |-> 0 ]

\* The host before its first frame.
Host(period, budget) ==
    [ period |-> period, lastWallDt |-> 0, last |-> "none",
      budget |-> budget, ticks |-> 0, keys |-> "none" ]

\* main.js init(): the state of initState() behind the mode menu.
SimInit ==
    /\ state = initState("none")
    /\ guidanceState = InitialGuidanceState
    /\ speedIdx = 0
    /\ tick = IdleTick
    /\ call = NoCall

-----------------------------------------------------------------------------
(* SpecConfig: the configuration store driven through its interface.       *)

SetRocketConfigCall(config) == setRocketConfig(config) /\ UNCHANGED simVars

ResetToDefaultCall == resetToDefault /\ UNCHANGED simVars

InitConfig ==
    /\ StoreInit
    /\ SimInit
    /\ env = Host(16, 0)

NextConfig ==
    \/ \E config \in ConfigInputs : SetRocketConfigCall(config)
    \/ ResetToDefaultCall

SpecConfig == InitConfig /\ [][NextConfig]_vars

-----------------------------------------------------------------------------
(* SpecGuidance: computeGuidance and resetGuidance called on vehicle       *)
(* states of a guided ascent of the default vehicle.                       *)

\* A vehicle in flight: altitude in m, velocities in m/s, time in s,
\* propellant in kg.
InFlight(altitude, vVertical, vHorizontal, time, stage, p1, p2, fairingOff) ==
    [ initState("guided") EXCEPT
        !.running = TRUE, !.engineOn = TRUE, !.events = << "LIFTOFF!" >>,
        !.altitude = altitude * 1000,
        !.vVertical = vVertical * 1000,
        !.vHorizontal = vHorizontal * 1000,
        !.time = time * 1000,
        !.currentStage = stage,
        !.propellantRemaining = << p1 * 1000, p2 * 1000 >>,
        !.fairingJettisoned = fairingOff ]

FlightSamples ==
    { InFlight(100, 40, 465, 5, 0, 383000, 92670, FALSE),
      InFlight(600, 110, 466, 12, 0, 365000, 92670, FALSE),
      InFlight(12000, 450, 600, 70, 0, 210000, 92670, FALSE),
      InFlight(40000, 900, 1500, 110, 0, 100000, 92670, FALSE),
      InFlight(100000, 1200, 3000, 200, 1, 0, 80000, FALSE),
      InFlight(300000, 800, 6900, 400, 1, 0, 30000, TRUE),
      InFlight(400000, 300, 7450, 480, 1, 0, 8000, TRUE),
      InFlight(495000, 20, 7300, 520, 1, 0, 20000, TRUE),
      InFlight(480000, 50, 7500, 540, 1, 0, 8000, TRUE),
      InFlight(500000, 0 - 30, 7500, 560, 1, 0, 12000, TRUE),
      InFlight(500000, 0, 7616, 600, 1, 0, 8000, TRUE),
      InFlight(500000, 0 - 10, 7900, 600, 1, 0, 8000, TRUE) }

Returned(dt, guidance) ==
    /\ guidanceState' = guidance.guidanceState
    /\ call' = [ made |-> TRUE, dt |-> dt, pitch |-> guidance.pitch,
                 previous |-> guidanceState.lastCommandedPitch ]

GuidanceCall(dt) ==
    /\ env.ticks < MaxCalls
    /\ \E guidance \in { computeGuidance(guidanceState, sn, dt) :
                             sn \in {Sense(state, getRocketConfig)} } :
          Returned(dt, guidance)
    /\ env' = [env EXCEPT !.ticks = @ + 1, !.last = "stepped"]
    /\ UNCHANGED <<currentConfig, raised, state, speedIdx, tick>>

ResetGuidanceCall ==
    /\ env.ticks < MaxCalls
    /\ guidanceState' = resetGuidance
    /\ env' = [env EXCEPT !.ticks = @ + 1, !.last = "command"]
    /\ UNCHANGED <<currentConfig, raised, state, speedIdx, tick, call>>

\* The vehicle moves on between two calls.
Fly(sample) ==
    /\ env.last = "stepped"
    /\ sample.time > state.time
    /\ state' = sample
    /\ env' = [env EXCEPT !.last = "none"]
    /\ UNCHANGED <<currentConfig, raised, guidanceState, speedIdx, tick, call>>

InitGuidance ==
    /\ StoreInit
    /\ state \in FlightSamples
    /\ guidanceState = InitialGuidanceState
    /\ speedIdx = 0
    /\ tick = IdleTick
    /\ call = NoCall
    /\ env = Host(16, 0)

NextGuidance ==
    \/ \E dt \in GuidanceDeltas : GuidanceCall(dt)
    \/ ResetGuidanceCall
    \/ \E sample \in FlightSamples : Fly(sample)

SpecGuidance == InitGuidance /\ [][NextGuidance]_vars

-----------------------------------------------------------------------------
(* Spec: the page from its start-up, with the operator's commands and the  *)
(* frames of the host.                                                     *)

Init ==
    /\ StoreInit
    /\ SimInit
    /\ \E period \in FramePeriods : env = Host(period, MaxCommands)

Next ==
    \/ \E config \in FlightInputs : BuildRocket(config)
    \/ \E mode \in GameModes : startMission(mode)
    \/ LaunchClick
    \/ PauseClick
    \/ ResetClick
    \/ SpeedClick
    \/ RefuelClick
    \/ \E mode \in BurnModes : BurnPress(mode)
    \/ \E mode \in BurnModes : BurnRelease(mode)
    \/ \E wallDt \in WallDeltas : TickBegin(wallDt, MaxTicks)
    \/ SubStep
    \/ TickEnd

Spec == Init /\ [][Next]_vars

-----------------------------------------------------------------------------
(* SpecZeroThrust: a guided launch of the vehicle without thrust, left to  *)
(* itself.  requestAnimationFrame(loop) is re-registered by every frame,   *)
(* so the host keeps calling loop: the frame steps are weakly fair.        *)

InitZeroThrust ==
    /\ currentConfig = normalizeConfig(ZeroThrustInput)
    /\ raised = FALSE
    /\ guidanceState = InitialGuidanceState
    /\ \E i \in 0..MaxSpeedIdx :
          /\ speedIdx = i
          /\ state = [initState("guided") EXCEPT !.timeWarp = speeds[i + 1]]
    /\ tick = IdleTick
    /\ call = NoCall
    /\ \E period \in FramePeriods : env = Host(period, MaxCommands)

Frame ==
    \/ \E wallDt \in WallDeltas : TickBegin(wallDt, FallTicks)
    \/ SubStep
    \/ TickEnd

NextZeroThrust ==
    \/ LaunchClick
    \/ \E wallDt \in WallDeltas : TickBegin(wallDt, FallTicks)
    \/ SubStep
    \/ TickEnd

SpecZeroThrust == InitZeroThrust /\ [][NextZeroThrust]_vars /\ WF_vars(Frame)

-----------------------------------------------------------------------------
(* SpecManual: a flight in manual mode, from the pad or from a point of    *)
(* the ascent, with the operator on the pitch keys, the control-mode       *)
(* buttons and the burn buttons.                                           *)

PitchKeys == {"up", "down"}

ControlModes == {"turnrate", "gimbal"}

\* The state of a manual flight at a point of the ascent, the operator's
\* pitch target at pitch (millidegrees).
Piloted(sample, pitch) ==
    [ sample EXCEPT !.gameMode = "manual", !.manualPitch = pitch ]

PilotedSamples ==
    { initState("manual"),
      Piloted(InFlight(12000, 450, 600, 70, 0, 210000, 92670, FALSE), 60000),
      Piloted(InFlight(300000, 800, 6900, 400, 1, 0, 30000, TRUE), 10000),
      Piloted(InFlight(500000, 0, 7616, 620, 1, 0, 8000, TRUE), 0) }

\* A vehicle of the rocket builder whose second stage gimbals by 1 degree
\* at most (the builder offers 1 to 15 degrees for either stage).
NarrowGimbalInput ==
    FullInput(<< Stage1, [Stage2 EXCEPT !.gimbalMaxAngle = 1000] >>, 923)

\* The manual flight of that vehicle at 60 km, the first stage about to run
\* dry, the operator asking for 60 degrees of pitch.
SeparatingSample ==
    Piloted(InFlight(60000, 1000, 1800, 150, 0, 100, 92670, FALSE), 60000)

InitManual ==
    /\ \/ StoreInit /\ state \in PilotedSamples
       \/ /\ currentConfig = normalizeConfig(NarrowGimbalInput)
          /\ raised = FALSE
          /\ state = SeparatingSample
    /\ guidanceState = InitialGuidanceState
    /\ speedIdx = 0
    /\ tick = IdleTick
    /\ call = NoCall
    /\ env = Host(16, PilotCommands)

NextManual ==
    \/ LaunchClick
    \/ \E key \in PitchKeys : PitchPress(key)
    \/ PitchRelease
    \/ \E mode \in ControlModes : ControlModeClick(mode)
    \/ \E mode \in BurnModes : BurnPress(mode)
    \/ \E mode \in BurnModes : BurnRelease(mode)
    \/ \E wallDt \in WallDeltas : TickBegin(wallDt, PilotTicks)
    \/ SubStep
    \/ TickEnd

SpecManual == InitManual /\ [][NextManual]_vars

-----------------------------------------------------------------------------
(* SpecVacuum: a guided flight above the atmosphere, from points of the    *)
(* ascent and of the orbit, the vehicle pointing along its path as the     *)
(* guidance of the frames before has steered it.                           *)

\* The vehicle of a sample turned to its flight-path angle.
Oriented(sample) ==
    [ sample EXCEPT !.rocketAngle = 90000 - Atan2(sample.vVertical, sample.vHorizontal),
                    !.guidancePhase = "vacuum-guidance",
                    !.guidancePitch = ClampPitch(Atan2(sample.vVertical, sample.vHorizontal)) ]

\* The guidance state that has commanded the flight-path angle of a sample.
Tracking(sample) ==
    [ InitialGuidanceState EXCEPT
        !.phase = "vacuum-guidance",
        !.lastCommandedPitch = ClampPitch(Atan2(sample.vVertical, sample.vHorizontal)),
        !.lastFlightPathAngle = Atan2(sample.vVertical, sample.vHorizontal) ]

VacuumSamples ==
    { InFlight(300000, 800, 6900, 400, 1, 0, 30000, TRUE),
      InFlight(500000, 0, 7616, 600, 1, 0, 8000, TRUE),
      InFlight(500000, 0 - 10, 7900, 600, 1, 0, 8000, TRUE),
      InFlight(520000, 40, 7850, 590, 1, 0, 8000, TRUE),
      InFlight(900000, 0 - 300, 7500, 900, 1, 0, 8000, TRUE),
      InFlight(500000, 0 - 5, 7400, 1600, 1, 0, 8000, TRUE),
      InFlight(109950, 1100, 3200, 205, 1, 0, 79000, FALSE),
      InFlight(115000, 1100, 3200, 210, 1, 0, 78000, FALSE) }

InitVacuum ==
    /\ StoreInit
    /\ \E sample \in VacuumSamples :
          /\ state = Oriented(sample)
          /\ guidanceState = Tracking(sample)
    /\ speedIdx = 0
    /\ tick = IdleTick
    /\ call = NoCall
    /\ env = Host(16, MaxCommands)

NextVacuum ==
    \/ SpeedClick
    \/ PauseClick
    \/ ResetClick
    \/ \E wallDt \in WallDeltas : TickBegin(wallDt, VacuumTicks)
    \/ SubStep
    \/ TickEnd

SpecVacuum == InitVacuum /\ [][NextVacuum]_vars


-----------------------------------------------------------------------------
(* SpecOrbital: a mission in orbital mode from its spawn in the 500 km     *)
(* orbit, the operator holding and releasing the burn buttons.             *)

\* An orbital mission later on: after a de-orbit burn, the engine off, at
\* altitude m and time s, sinking at 100 m/s.
Deorbited(altitude, time) ==
    [ spawnInOrbit("orbital", ORBITAL_SPAWN_ALTITUDE) EXCEPT
        !.altitude = altitude * 1000,
        !.vVertical = 0 - 100000,
        !.time = time * 1000,
        !.events = << "Spawned in orbit", "Burn started", "Burn ended" >> ]

\* The state startMission('orbital') leaves, and two descents through 150 km.
OrbitalSamples ==
    { spawnInOrbit("orbital", ORBITAL_SPAWN_ALTITUDE),
      Deorbited(150001, 300),
      Deorbited(150001, 700) }

InitOrbital ==
    /\ StoreInit
    /\ state \in OrbitalSamples
    /\ guidanceState = resetGuidance
    /\ speedIdx = 0
    /\ tick = IdleTick
    /\ call = NoCall
    /\ env = Host(16, OrbitCommands)

NextOrbital ==
    \/ \E mode \in BurnModes : BurnPress(mode)
    \/ \E mode \in BurnModes : BurnRelease(mode)
    \/ ResetClick
    \/ \E wallDt \in WallDeltas : TickBegin(wallDt, OrbitTicks)
    \/ SubStep
    \/ TickEnd

SpecOrbital == InitOrbital /\ [][NextOrbital]_vars

-----------------------------------------------------------------------------
(* SpecStore: the rocket builder as a caller of the configuration store.   *)
(* The builder keeps the object it passed to setRocketConfig or got from   *)
(* getDefaultRocketConfig and assigns to its properties afterwards.  Each  *)
(* object has an identity; an assignment through one reference is seen     *)
(* through every reference to the same object.                             *)

\* The identity of the module constant DEFAULT_ROCKET_CONFIG.
DefaultObject == 0

\* The identity of an object built by the caller or by JSON.parse: one that
\* no reference in use has.
NewObject(inUse) == The({ n \in 1..4 : n \notin inUse /\ \A k \in 1..(n - 1) : k \in inUse })

\* A clone that is the object itself.
deepCloneObjectItself(obj, inUse) == obj

\* deepClone(obj), the object returned: JSON.parse(JSON.stringify(obj)) builds
\* its result, nested objects and arrays included, from the text.
deepCloneObject(obj, inUse) == NewObject(inUse \cup {obj})

\* normalizeConfig(config), the object returned: const out = deepClone(config)
\* ... return out.
normalizeConfigObject(config, inUse) == deepCloneObject(config, inUse)

\* getDefaultRocketConfig(), the object returned.
getDefaultRocketConfigObject(inUse) == deepCloneObject(DefaultObject, inUse)

\* The assignments the builder makes to an object it holds: to a property of
\* a nested stage object and to a property of the object itself.
Assignments == {"stages.0.propellantMass", "fairingJettisonAlt"}

Assigned(config, path) ==
    IF path = "fairingJettisonAlt"
    THEN [config EXCEPT !.fairingJettisonAlt = 80000]
    ELSE [config EXCEPT !.stages[1].propellantMass = 1000]

BuilderInputs ==
    { FullInput(<<Stage1, Stage2>>, 923), SprintInput, NarrowGimbalInput,
      FullInput(<<Stage1>>, 923), [kind |-> "null"] }

\* held: the builder's object (its content) and heldObject its identity;
\* storeObject: the identity of the object currentConfig refers to;
\* defaultAssigned: an assignment has been made to DEFAULT_ROCKET_CONFIG.
Builder(held, heldObject, storeObject, defaultAssigned, last) ==
    [ held |-> held, heldObject |-> heldObject, storeObject |-> storeObject,
      defaultAssigned |-> defaultAssigned, last |-> last ]

ObjectsInUse == {DefaultObject, env.heldObject, env.storeObject}

\* const c = {...}; setRocketConfig(c)
BuilderSet(config) ==
    /\ setRocketConfig(config)
    /\ \E c \in {NewObject({DefaultObject, env.storeObject})} :
          env' = Builder(config, c,
                         IF Rejected(config) \/ Throws(deepClone(config))
                         THEN env.storeObject
                         ELSE normalizeConfigObject(c, {DefaultObject, env.storeObject, c}),
                         env.defaultAssigned, "set")
    /\ SimUnchanged

\* const c = getDefaultRocketConfig()
BuilderGetDefault ==
    /\ env' = Builder(getDefaultRocketConfig,
                      getDefaultRocketConfigObject({DefaultObject, env.storeObject}),
                      env.storeObject, env.defaultAssigned, "get")
    /\ UNCHANGED <<currentConfig, raised>>
    /\ SimUnchanged

\* c.fairingJettisonAlt = ... or c.stages[0].propellantMass = ... on the
\* object the builder holds.
BuilderAssign(path) ==
    /\ env.last \in {"set", "get", "assign"}
    /\ Has(env.held, "stages")
    /\ Assigned(env.held, path) # env.held
    /\ env' = [env EXCEPT !.held = Assigned(env.held, path),
                          !.defaultAssigned = @ \/ env.heldObject = DefaultObject,
                          !.last = "assign"]
    /\ currentConfig' = IF env.storeObject = env.heldObject
                        THEN Assigned(currentConfig, path)
                        ELSE currentConfig
    /\ UNCHANGED raised
    /\ SimUnchanged

\* resetToDefault(): normalizeConfig(getDefaultRocketConfig())
BuilderReset ==
    /\ resetToDefault
    /\ \E d \in {getDefaultRocketConfigObject(ObjectsInUse)} :
          env' = [env EXCEPT !.storeObject =
                                 normalizeConfigObject(d, ObjectsInUse \cup {d}),
                             !.last = "reset"]
    /\ SimUnchanged

InitStore ==
    /\ StoreInit
    /\ SimInit
    /\ \E c \in {normalizeConfigObject(DefaultObject, {DefaultObject})} :
          env = Builder([kind |-> "null"], NewObject({DefaultObject, c}), c,
                        FALSE, "none")

NextStore ==
    \/ \E config \in BuilderInputs : BuilderSet(config)
    \/ BuilderGetDefault
    \/ \E path \in Assignments : BuilderAssign(path)
    \/ BuilderReset

SpecStore == InitStore /\ [][NextStore]_vars

-----------------------------------------------------------------------------
(* Claims about the configuration interface (SpecConfig).                  *)

IsStageObject(entry) == entry.kind = "stage"

\* The inputs claim C5 calls malformed or under-specified.
Malformed(config) ==
    \/ Rejected(config)
    \/ \E i \in DOMAIN config.stages : ~IsStageObject(config.stages[i])

\* C5 (as claimed): for every malformed or under-specified input (null, stages
\* missing or not an array, fewer than 2 stages, stage entries that are not
\* stage objects, payload or fairing missing) setRocketConfig returns without
\* raising and leaves the current configuration as it was.
C5_MalformedInputIgnored ==
    [][\A config \in ConfigInputs :
          (Malformed(config) /\ SetRocketConfigCall(config))
              => (~raised' /\ currentConfig' = currentConfig)]_vars

StoredDensity ==
    IF Has(currentConfig, "propellantDensity")
    THEN currentConfig.propellantDensity ELSE DEFAULT_DENSITY

\* C6: after any sequence of setRocketConfig and resetToDefault calls every
\* stage of the current configuration has propellantMass <=
\* getMaxPropellantForStage(stage, propellantDensity).
C6_PropellantWithinCapacity ==
    \A i \in DOMAIN currentConfig.stages :
        LET stage == currentConfig.stages[i] IN
        IsStageObject(stage) =>
            stage.propellantMass <= getMaxPropellantForStage(stage, StoredDensity)

\* A write whose first stage was cut down to a capacity below the default load.
C6_Witness ==
    /\ IsStageObject(currentConfig.stages[1])
    /\ currentConfig.stages[1].propellantMass
           = getMaxPropellantForStage(currentConfig.stages[1], StoredDensity)
    /\ currentConfig.stages[1].propellantMass < Stage1.propellantMass
    /\ currentConfig.stages[1].propellantMass > 0

SegmentLengths ==
    LET st == currentConfig.stages
        Sum[i \in 0..Len(st)] == IF i = 0 THEN 0 ELSE Sum[i - 1] + st[i].length
    IN  Sum[Len(st)] + currentConfig.payload.length + currentConfig.fairing.length

\* C7: after every accepted configuration write the stored totalLength is the
\* sum of all stage lengths plus the payload length plus the fairing length.
C7_TotalLengthIsSum ==
    (\A i \in DOMAIN currentConfig.stages : IsStageObject(currentConfig.stages[i]))
        => currentConfig.totalLength = SegmentLengths

\* A stored configuration whose lengths differ from the default's, so that the
\* totalLength handed in (the default's 70 m) was stale.
C7_Witness ==
    /\ \A i \in DOMAIN currentConfig.stages : IsStageObject(currentConfig.stages[i])
    /\ currentConfig.totalLength = SegmentLengths
    /\ currentConfig.totalLength # ROCKET_CONFIG.totalLength

-----------------------------------------------------------------------------
(* Claims about the stepper (Spec, SpecZeroThrust) and the guidance        *)
(* (SpecGuidance).                                                         *)

Count(s, text) == Cardinality({i \in DOMAIN s.events : s.events[i] = text})

\* The final stage was found empty by an earlier tick: it is at exactly 0 and
\* its SECO is in the log.
FinalStageHandled(s) ==
    /\ s.currentStage = Len(currentConfig.stages) - 1
    /\ CurrentPropellant(s) = 0
    /\ Logged(s, "SECO")

\* C1 (as claimed): stage depletion happens once per depletion; a later tick
\* that re-checks the same depleted stage, with no refuel in between, makes no
\* further transition and logs no further MECO or SECO.
C1_DepletionHappensOnce ==
    [][(tick.pc = "end" /\ FinalStageHandled(state))
          => /\ Count(state', "SECO") = Count(state, "SECO")
             /\ Count(state', "MECO") = Count(state, "MECO")
             /\ state'.currentStage = state.currentStage
             /\ state'.engineOn = state.engineOn]_vars

\* C2 (as claimed): every call of computeGuidance, for every dt >= 0, returns a
\* pitch inside [-5 deg, 90 deg] that differs from the pitch of the previous
\* call (90 deg after resetGuidance) by at most maxPitchRate * dt.
C2_PitchBoundedAndRateLimited ==
    call.made =>
        /\ call.pitch >= 0 - 5000
        /\ call.pitch <= 90000
        /\ Abs(call.pitch - call.previous)
              <= (GUIDANCE_CONFIG.maxPitchRate * call.dt) \div 1000

MissionFailed(s) == Logged(s, "MISSION FAILURE - Ground impact")

\* C3: with zero thrust from launch onward the run eventually reaches
\* altitude <= 0 and halts with the mission-failure event, and it never halts
\* so while the simulated time is <= 1 s.
C3_ZeroThrustEndsInGroundImpact ==
    /\ state.running ~> (~state.running /\ MissionFailed(state) /\ state.altitude <= 0)
    /\ [](MissionFailed(state) => state.time > 1000)

\* The halted run: fallen below the pad, later than 1 s.
C3_Witness ==
    /\ ~state.running
    /\ MissionFailed(state)
    /\ state.altitude < 0
    /\ state.time > 1000
    /\ state.engineOn

\* C8: while running is false a frame of the host loop does not enter the
\* stepper: the vehicle state (position, velocity, time, propellant, stage,
\* engine, fairing, event log) and the guidance state are as before the
\* frame, for every wall-clock delta and time-warp factor.
C8_PausedFrameChangesNothing ==
    [][(tick.pc = "idle" /\ ~state.running /\ env'.last # env.last
          /\ env'.last \in {"skipped", "stepped"})
          => /\ env'.last = "skipped"
             /\ tick'.pc = "idle"
             /\ state' = state
             /\ guidanceState' = guidanceState]_vars

\* A flight paused after it had advanced, and a 100 ms frame at warp 25
\* that found it paused.
C8_Witness ==
    /\ ~state.running
    /\ state.time > 0
    /\ state.events[Len(state.events)] = "PAUSED"
    /\ env.last = "skipped"
    /\ env.lastWallDt = 100
    /\ state.timeWarp = 25
    /\ tick.pc = "idle"

\* A step that is the start of a running tick.
RunningTick == tick.pc = "idle" /\ state.running /\ env'.ticks = env.ticks + 1

CappedDelta == Min(env'.lastWallDt * state.timeWarp, 1000)

\* The division of the tick into sub-steps that update() computes.
DividesTick ==
    /\ tick'.dt = CappedDelta
    /\ tick'.steps >= 1
    /\ tick'.steps <= 1000
    /\ tick'.steps * tick'.stepDt = tick'.dt
    /\ tick'.stepDt <= 50

AltitudeSamples == {0, 11000, 70000, 200000}

ThrottleSamples == {0, 400, 1000}

\* The three conditions of C10 on a vehicle state.
NoThrustCondition(s) ==
    \/ ~s.engineOn
    \/ ~StageInRange(s, currentConfig)
    \/ CurrentPropellant(s) <= 0

\* The state itself and the state with its stage index past the last stage.
StageVariants(s) == {s, [s EXCEPT !.currentStage = Len(currentConfig.stages)]}

\* C10: the thrust is 0 whenever the engine is off, the stage index is out of
\* range or the current stage's propellant is <= 0, for every altitude and
\* throttle; and a sub-step taken in one of these conditions removes no
\* propellant from any stage.
C10_NoThrustNoConsumption ==
    [][/\ \A s \in StageVariants(state) :
             NoThrustCondition(s) =>
                 /\ \A altitude \in AltitudeSamples, throttle \in ThrottleSamples :
                        getCurrentThrust(s, currentConfig, altitude, throttle) = 0
                 /\ \A throttle \in ThrottleSamples :
                        Consume(s, currentConfig, AltitudeM(s), throttle, tick.stepDt)
                            .propellantRemaining = s.propellantRemaining
       /\ (tick.pc = "step" /\ NoThrustCondition(state))
             => state'.propellantRemaining = state.propellantRemaining]_vars

\* Sub-steps of a coasting vehicle in orbit, taken with the engine off, that
\* left the propellant the vehicle was spawned with.
C10_Witness ==
    /\ tick.pc = "step"
    /\ tick.step > 0
    /\ tick.stepDt > 0
    /\ ~state.engineOn
    /\ CurrentPropellant(state) = ROCKET_CONFIG.stages[2].propellantMass * 100

-----------------------------------------------------------------------------
(* Claims about the operator's commands and the guidance cases.            *)

\* s with the fields a refuel may write set as in t: what is left is every
\* other field of the state object.
ButPropellantAndLog(s, t) ==
    [s EXCEPT !.propellantRemaining = t.propellantRemaining, !.events = t.events]

\* A step that is a click on the refuel button with a stage to refuel: it
\* logs "Refueled".
RefuelStep ==
    /\ tick.pc = "idle"
    /\ Len(state'.events) = Len(state.events) + 1
    /\ state'.events[Len(state'.events)] = "Refueled"

C11_WitnessClamped ==
    /\ state.time > 0
    /\ state.events[Len(state.events)] = "Refueled"
    /\ CurrentPropellant(state)
          = CurrentStage(state, currentConfig).propellantMass * 1000

\* The launch-pad values the claim lists, of a state object and of a
\* guidance state.
OnThePad(s) ==
    /\ s.time = 0
    /\ ~s.running
    /\ s.currentStage = 0
    /\ s.propellantRemaining = << ROCKET_CONFIG.stages[1].propellantMass * 1000,
                                  ROCKET_CONFIG.stages[2].propellantMass * 1000 >>
    /\ ~s.fairingJettisoned
    /\ ~s.engineOn
    /\ s.burnMode = "none"
    /\ s.maxQ = 0
    /\ s.events = << >>
    /\ s.altitude = 0
    /\ s.vVertical = 0
    /\ s.timeWarp = 1

GuidanceAsNew(gs) ==
    /\ ~gs.circularizationBurnStarted
    /\ ~gs.retrogradeBurnStarted
    /\ ~gs.isRetrograde
    /\ gs.lastCommandedPitch = 90000
    /\ gs.phase = "pre-launch"

\* C12: a click on reset in a launch mode leaves the whole state object and
\* the guidance state at their launch-pad initial values (time 0, not running,
\* stage 0, full propellant, fairing attached, engine off, no burn mode,
\* max-Q 0, empty event log, one-shot burn flags false, last commanded pitch
\* 90 deg), whatever ticks and commands came before it.
C12_ResetRestoresLaunchPad ==
    [][(ResetClick /\ state.gameMode # "orbital")
          => /\ OnThePad(state')
             /\ state' = initState(state.gameMode)
             /\ GuidanceAsNew(guidanceState')
             /\ guidanceState' = InitialGuidanceState]_vars

\* The pad after a reset of a guided flight that had lifted off and flown
\* for some frames.
C12_Witness ==
    /\ state = initState("guided")
    /\ guidanceState = InitialGuidanceState
    /\ env.ticks > 1
    /\ env.budget = 0
    /\ tick.pc = "idle"

\* update(dt) as a function: what one step of the stepper makes of the state
\* object s, the guidance state gs and the position t in the tick, with the
\* configuration config, the frame's delta d and the pitch key held.
Begun(s, gs, config, t, d) ==
    IF GroundImpact(s)
    THEN << addEvent([s EXCEPT !.running = FALSE],
                     "MISSION FAILURE - Ground impact"), gs, t >>
    ELSE The({ << started, gs,
                  BeforeLoop(s, config, Min(d * s.timeWarp, 1000),
                             SubSteps(started, Min(d * s.timeWarp, 1000))) >> :
               started \in {EnableEngineForBurn(s, config)} })

StepOf(s, gs, config, t, d, keys) ==
    CASE t.pc = "idle" ->
             IF ~s.running THEN << s, gs, t >>
             ELSE The({ Begun(piloted, gs, config, t, d) :
                        piloted \in {updateManualPitch(s, config, d, keys)} })
      [] t.pc = "step" ->
             The({ << r[1], r[2],
                      [ t EXCEPT !.step = @ + 1,
                                 !.pc = IF t.step + 1 >= t.steps THEN "end" ELSE "step" ] >> :
                   r \in {SubStepBody(s, gs, config, t)} })
      [] OTHER -> << AfterLoop(s, config, t), gs, IdleTick >>

\* A step of the stepper: a frame of the host, or a step inside a tick.
StepperStep ==
    \/ tick.pc # "idle"
    \/ \E wallDt \in WallDeltas : TickBegin(wallDt, MaxTicks)

SamePlaceAs(s) ==
    { [s EXCEPT !.time = @ + 60000],
      [s EXCEPT !.engineOn = ~@],
      [s EXCEPT !.propellantRemaining = << 0, 0 >>],
      [s EXCEPT !.events = Append(@, "PAUSED"), !.running = FALSE],
      [s EXCEPT !.currentStage = 1 - @, !.fairingJettisoned = ~@] }

\* A call of computeGuidance, which calls predictOrbit(state).
GuidanceStep == \E dt \in GuidanceDeltas : GuidanceCall(dt)

ManualSubStep ==
    /\ tick.pc = "step"
    /\ state.gameMode = "manual"
    /\ state.manualPitch # Null

\* The sub-step steers toward the operator's pitch with the throttle that
\* computeGuidance commands for it: r is the result of the sub-step and
\* guidance what computeGuidance returns for it.
OperatorSteers(r, guidance) ==
    /\ r[3].targetPitch = state.manualPitch
    /\ r[3].throttle = guidance.throttle
    /\ state'.guidanceThrottle = guidance.throttle
    /\ state'.propellantRemaining =
           Consume(state, currentConfig, AltitudeM(state), guidance.throttle,
                   tick.stepDt).propellantRemaining
    /\ state.controlMode = "gimbal" => state'.commandedGimbal = state.manualGimbal
    /\ state.controlMode # "gimbal"
          => state'.commandedGimbal =
                 calculateCommandedGimbal(state, currentConfig, state.manualPitch)
    /\ state'.manualPitch = state.manualPitch
    /\ state'.manualGimbal = state.manualGimbal

SteersAsOperator ==
    \E r \in {SubStepBody(state, guidanceState, currentConfig, tick)},
       guidance \in { computeGuidance(guidanceState, sn, tick.stepDt) :
                          sn \in {Sense(state, currentConfig)} } :
       OperatorSteers(r, guidance)

\* C15 as stated: in manual mode with an operator pitch target set, every
\* sub-step steers toward the operator's pitch with exactly the throttle
\* guidance commands for that sub-step; in gimbal control mode the commanded
\* gimbal is the operator's gimbal, not the pitch controller's output.
C15_EverySubStepSteersAsOperator ==
    [][ManualSubStep => SteersAsOperator]_vars

\* C15 (amended): the same of every sub-step of a tick that no burn mode
\* steers; and in gimbal control mode the commanded gimbal is the operator's
\* gimbal on every sub-step, burn or not.
C15_SubStepSteersAsOperatorUnlessBurn ==
    [][ManualSubStep
          => /\ ~tick.burnActive => SteersAsOperator
             /\ state.controlMode = "gimbal"
                   => state'.commandedGimbal = state.manualGimbal]_vars

\* After a sub-step of a manual flight in turn rate mode whose pitch target
\* the operator has turned away from the pitch guidance commands.
C15_Witness ==
    /\ state.gameMode = "manual"
    /\ state.controlMode = "turnrate"
    /\ tick.pc \in {"step", "end"}
    /\ tick.step >= 1
    /\ ~tick.burnActive
    /\ env.keys = "down"
    /\ state.manualPitch # Null
    /\ state.manualPitch # state.guidancePitch
    /\ state.manualPitch \notin {90000, 60000, 10000, 0}

\* After a sub-step in gimbal control mode with the operator's gimbal driven
\* off neutral.
C15_WitnessGimbal ==
    /\ state.gameMode = "manual"
    /\ state.controlMode = "gimbal"
    /\ tick.pc \in {"step", "end"}
    /\ tick.step >= 1
    /\ state.manualGimbal # 0
    /\ state.commandedGimbal = state.manualGimbal

\* After a sub-step of a manual flight that a burn mode steered.
C15_WitnessBurn ==
    /\ state.gameMode = "manual"
    /\ tick.pc \in {"step", "end"}
    /\ tick.step >= 1
    /\ tick.burnActive

-----------------------------------------------------------------------------
(* Claims about the cases of the vacuum guidance.                          *)

\* What computeGuidance reads of the vehicle before a call.
Sensed == Sense(state, currentConfig)

InVacuum == Sensed.altitude >= GUIDANCE_CONFIG.atmosphereLimit

ApoError == ApoapsisError(Sensed.orbit)

PeriError == Sensed.orbit.periapsis - GUIDANCE_CONFIG.targetAltitude

WithinTolerance == Abs(ApoError) <= 10000 /\ Abs(PeriError) <= 10000

\* what the call returns
ReturnedBy(dt) == computeGuidance(guidanceState, Sensed, dt)

C17_RaisingApoapsisThrottlesDown ==
    [][\A dt \in GuidanceDeltas :
          (GuidanceCall(dt) /\ InVacuum /\ ApoError < 0 - 10000)
             => /\ ~guidanceState'.isRetrograde
                /\ 0 - ApoError >= 50000 => guidanceState'.throttle = 1000
                /\ 0 - ApoError < 50000
                      => /\ guidanceState'.throttle < 1000
                         /\ guidanceState'.throttle = ThrottleToGo(0 - ApoError)]_vars

\* What holds of case (a): no retrograde flag, full throttle while the
\* deficit is 50 km or more, and inside the last 50 km full throttle or the
\* precision throttle of the throttle control, whatever the deficit.
C17_RaisingApoapsisAsCoded ==
    [][\A dt \in GuidanceDeltas :
          (GuidanceCall(dt) /\ InVacuum /\ ApoError < 0 - 10000)
             => /\ ~guidanceState'.isRetrograde
                /\ 0 - ApoError >= 50000 => guidanceState'.throttle = 1000
                /\ guidanceState'.throttle =
                       PrecisionThrottle(Sensed, TargetCircularVelocity - Sensed.vHorizontal)]_vars

\* Case (c) of the vacuum guidance before a sub-step of a guided flight.
CaseC == InVacuum /\ PeriError >= 0 /\ ApoError > 10000

GuidedSubStep ==
    /\ tick.pc = "step"
    /\ state.gameMode = "guided"
    /\ ~tick.burnActive

\* The thrust of the sub-step along the velocity it started with: the
\* direction the thrust was applied in (the attitude and gimbal angle after
\* the rotational dynamics of the sub-step) times the velocity, positive
\* for prograde and negative for retrograde thrust.
ThrustAlongVelocity ==
    getRocketThrustDirection(state')[1] * (state.vVertical \div 1000)
    + getRocketThrustDirection(state')[2] * (state.vHorizontal \div 1000)

\* The coast of case (c): throttle 0 and no retrograde flag until the time
\* to periapsis is within half the retrograde-burn duration, the flag after.
CoastsToPeriapsis(guidance) ==
    /\ ~shouldStartRetrograde(Sensed)
          => guidance.throttle = 0 /\ ~guidance.guidanceState.isRetrograde
    /\ shouldStartRetrograde(Sensed)
          => guidance.throttle > 0 /\ guidance.guidanceState.isRetrograde

\* C18: in case (c), periapsis at or above target and apoapsis above target +
\* tolerance, guidance coasts with throttle 0 until the time to periapsis is
\* within half the retrograde-burn duration, and every sub-step after that in
\* which it commands a throttle above 0 thrusts against the velocity.
C18_RetrogradeBurnThrustsRetrograde ==
    [][(GuidedSubStep /\ CaseC)
          => \E guidance \in {ReturnedBy(tick.stepDt)} :
                /\ CoastsToPeriapsis(guidance)
                /\ (guidance.throttle > 0 /\ state.engineOn)
                      => ThrustAlongVelocity < 0]_vars

\* What holds of case (c): the coast and the flag as claimed, and the
\* sub-step steered to the pitch computeGuidance returns, the clamped
\* flight-path angle, with the thrust along the velocity.
C18_RetrogradeBurnAsCoded ==
    [][(GuidedSubStep /\ CaseC)
          => \E guidance \in {ReturnedBy(tick.stepDt)} :
                /\ CoastsToPeriapsis(guidance)
                /\ state'.commandedGimbal =
                       calculateCommandedGimbal(state, currentConfig, guidance.pitch)
                /\ (guidance.throttle > 0 /\ state.engineOn)
                      => ThrustAlongVelocity > 0]_vars

-----------------------------------------------------------------------------
(* Claims about the max-Q protection and the ground impact.                *)

\* Below 70 km, after the pitch kick, with the dynamic pressure above 80 % of
\* GUIDANCE_CONFIG.maxQ.
MaxQCase ==
    /\ Sensed.altitude < 70000
    /\ Sensed.time >= GUIDANCE_CONFIG.pitchKickEnd
    /\ Sensed.dynamicPressure * 10 > GUIDANCE_CONFIG.maxQ * 8

\* C19 as stated: in the max-Q case the pitch computeGuidance returns is
\* exactly the flight-path angle.
C19_MaxQReturnsFlightPathAngle ==
    [][\A dt \in GuidanceDeltas :
          (GuidanceCall(dt) /\ MaxQCase) => call'.pitch = Sensed.flightPathAngle]_vars

\* The pitch p moved from the last commanded pitch by at most maxChange.
Limited(last, p, maxChange) ==
    IF Abs(p - last) > maxChange
    THEN IF p > last THEN last + maxChange ELSE last - maxChange
    ELSE p

\* C19 (amended): in the max-Q case the guidance logic chooses exactly the
\* flight-path angle (phase max-q-protection), and the pitch returned is that
\* angle clamped to [-5, 90] degrees and, for dt > 0, moved from the last
\* commanded pitch by at most maxPitchRate * dt: it is the flight-path angle
\* itself when that lies in [-5, 90] and dt = 0 or the last commanded pitch is
\* within maxPitchRate * dt of it.
C19_MaxQFollowsFlightPathAngle ==
    [][\A dt \in GuidanceDeltas :
          (GuidanceCall(dt) /\ MaxQCase)
             => /\ guidanceState'.phase = "max-q-protection"
                /\ GuidanceLogic(guidanceState, Sensed, dt).pitch = Sensed.flightPathAngle
                /\ call'.pitch =
                       IF dt > 0
                       THEN Limited(guidanceState.lastCommandedPitch,
                                    Max(0 - 5000, Min(90000, Sensed.flightPathAngle)),
                                    (2000 * dt) \div 1000)
                       ELSE Max(0 - 5000, Min(90000, Sensed.flightPathAngle))
                /\ guidanceState'.lastCommandedPitch = call'.pitch]_vars

\* After a call with dt > 0 in the max-Q case that returned the flight-path
\* angle itself.
C19_Witness ==
    /\ call.made
    /\ env.last = "stepped"
    /\ MaxQCase
    /\ call.dt > 0
    /\ guidanceState.phase = "max-q-protection"
    /\ call.pitch = Sensed.flightPathAngle
    /\ call.pitch # 90000

\* After a call in the max-Q case that the rate limit kept off the
\* flight-path angle.
C19_WitnessLimited ==
    /\ call.made
    /\ env.last = "stepped"
    /\ MaxQCase
    /\ call.dt > 0
    /\ guidanceState.phase = "max-q-protection"
    /\ call.pitch # Sensed.flightPathAngle

\* The vehicle state the claim lists: position, velocity, propellant, current
\* stage and elapsed time.
Flight(s) ==
    << s.altitude, s.vVertical, s.vHorizontal, s.propellantRemaining,
       s.currentStage, s.time >>

\* A tick has found the vehicle below the ground after the first second and
\* stopped the run, and no mission has been started or reset since.
Crashed(s) == MissionFailed(s) /\ s.altitude < 0 /\ s.time > 1000

\* C20: ground impact is fatal: once a tick has detected it and stopped the
\* run, no step of a later tick and no click on pause-btn (pause or resume)
\* changes position, velocity, propellant, current stage or elapsed time; a
\* resumed run is stopped again by the next frame before it steps, and no
\* sub-step runs.
C20_GroundImpactIsFatal ==
    [][Crashed(state)
          => /\ (StepperStep \/ PauseClick)
                   => Flight(state') = Flight(state) /\ raised' = raised
             /\ StepperStep => ~state'.running /\ tick'.pc = "idle"
             /\ tick.pc = "idle"
             /\ (state' # state /\ Flight(state') # Flight(state))
                   => (ResetClick \/ RefuelClick)]_vars

\* A crashed run that the operator resumed and the next frame stopped again.
C20_Witness ==
    /\ Crashed(state)
    /\ ~state.running
    /\ Logged(state, "RESUMED")
    /\ Count(state, "MISSION FAILURE - Ground impact") = 2

-----------------------------------------------------------------------------
(* Claims about the phase and the throttle of computeGuidance.             *)

AllPhases ==
    { "pre-launch", "vertical-ascent", "pitch-kick", "max-q-protection",
      "atmospheric-ascent", "vacuum-guidance" }

\* The condition the phase p has on altitude (m), time (ms) and dynamic
\* pressure (Pa).
PhaseApplies(p, altitude, time, q) ==
    CASE p = "vertical-ascent" ->
            altitude < 70000 /\ time < GUIDANCE_CONFIG.pitchKickStart
      [] p = "pitch-kick" ->
            /\ altitude < 70000
            /\ GUIDANCE_CONFIG.pitchKickStart <= time
            /\ time < GUIDANCE_CONFIG.pitchKickEnd
      [] p = "max-q-protection" ->
            /\ altitude < 70000
            /\ time >= GUIDANCE_CONFIG.pitchKickEnd
            /\ q * 10 > GUIDANCE_CONFIG.maxQ * 8
      [] p = "atmospheric-ascent" ->
            /\ altitude < 70000
            /\ time >= GUIDANCE_CONFIG.pitchKickEnd
            /\ q * 10 <= GUIDANCE_CONFIG.maxQ * 8
      [] p = "vacuum-guidance" -> altitude >= 70000
      [] OTHER -> FALSE

PhasesApplying ==
    { p \in AllPhases :
        PhaseApplies(p, Sensed.altitude, Sensed.time, Sensed.dynamicPressure) }

\* C21: the phase of every computeGuidance call, returned and stored, is the
\* one phase whose condition on altitude, time and dynamic pressure holds:
\* exactly one of vertical-ascent, pitch-kick, max-q-protection,
\* atmospheric-ascent and vacuum-guidance applies, whatever the guidance state
\* and dt, and pre-launch is never the phase of a call.
C21_PhaseFromAltitudeTimeAndQ ==
    [][\A dt \in GuidanceDeltas :
          GuidanceCall(dt)
             => /\ PhasesApplying = {ReturnedBy(dt).phase}
                /\ guidanceState'.phase = ReturnedBy(dt).phase
                /\ guidanceState'.phase # "pre-launch"]_vars

\* After a call past the pitch kick below 70 km with the dynamic pressure at
\* or under 80 % of maxQ.
C21_Witness ==
    /\ call.made
    /\ env.last = "stepped"
    /\ guidanceState.phase = "atmospheric-ascent"
    /\ PhasesApplying = {"atmospheric-ascent"}
    /\ Sensed.dynamicPressure > 0

\* After a call in each of the other four phases.
C21_WitnessPhases ==
    /\ call.made
    /\ env.last = "stepped"
    /\ guidanceState.phase \in
         { "vertical-ascent", "pitch-kick", "max-q-protection", "vacuum-guidance" }
    /\ PhasesApplying = {guidanceState.phase}

\* The throttle the feedback logic of the vacuum guidance chooses before the
\* throttle control: 0, 1.0 or Math.max(0.1, toGo / 50000).
FeedbackThrottle ==
    FeedbackGuidance(Sensed, ApoError, PeriError).throttle

ThrottleAllowed(throttle) ==
    \/ throttle = 0
    \/ GUIDANCE_CONFIG.minThrottle <= throttle /\ throttle <= 1000

\* C22: the throttle of every computeGuidance call, returned and stored, is
\* either 0 or within [minThrottle, 1.0] = [0.4, 1.0], in every phase and
\* every case of the vacuum guidance, also where the feedback logic throttles
\* down below minThrottle.
C22_ThrottleZeroOrAboveFloor ==
    [][\A dt \in GuidanceDeltas :
          GuidanceCall(dt)
             => /\ ThrottleAllowed(ReturnedBy(dt).throttle)
                /\ guidanceState'.throttle = ReturnedBy(dt).throttle
                /\ (InVacuum /\ FeedbackThrottle = 0) <=> (guidanceState'.throttle = 0)]_vars

\* After a call in the vacuum guidance whose feedback logic throttled down
\* below minThrottle.
C22_Witness ==
    /\ call.made
    /\ env.last = "stepped"
    /\ InVacuum
    /\ FeedbackThrottle > 0
    /\ FeedbackThrottle < GUIDANCE_CONFIG.minThrottle
    /\ ThrottleAllowed(guidanceState.throttle)
    /\ guidanceState.throttle > 0

\* After a call whose throttle control throttled down for precision.
C22_WitnessPrecision ==
    /\ call.made
    /\ env.last = "stepped"
    /\ InVacuum
    /\ guidanceState.throttle >= GUIDANCE_CONFIG.minThrottle
    /\ guidanceState.throttle < 1000

-----------------------------------------------------------------------------
(* Claims about the announcements of the stepper.                          *)

CircularizationStart == "Circularization burn start"

RetrogradeStart == "Retrograde burn start"

\* The step logs the announcement text.
Announces(text) == Count(state', text) > Count(state, text)

\* The trigger of an announcement holds in the sub-step about to run.
Triggered(text) ==
    /\ tick.pc = "step"
    /\ tick.step = 0
    /\ ~tick.burnActive
    /\ state.gameMode # "orbital"
    /\ state.engineOn
    /\ \E guidance \in {ReturnedBy(tick.stepDt)} :
          /\ guidance.phase = "vacuum-guidance"
          /\ guidance.throttle > 0
          /\ IF text = RetrogradeStart
             THEN guidance.reason = "Starting retrograde burn"
             ELSE /\ state.time >= 1500000
                  /\ AnnouncesCircularization(guidance.reason)

\* The one-shot flag of guidanceState that belongs to an announcement.
StartedFlag(gs, text) ==
    IF text = RetrogradeStart THEN gs.retrogradeBurnStarted
    ELSE gs.circularizationBurnStarted

\* C23: the stepper logs a circularization-burn start and a retrograde-burn
\* start at most once each between two guidance resets: a step that logs one
\* finds its one-shot flag clear, sets it and logs the text once; a set flag
\* is cleared by resetGuidance only; while it is set no sub-step logs the
\* text again, although the triggering condition holds again on later ticks;
\* so the log never holds either text twice.
C23_BurnStartAnnouncedOnce ==
    [][\A text \in {CircularizationStart, RetrogradeStart} :
          /\ Announces(text)
                => /\ Triggered(text)
                   /\ ~StartedFlag(guidanceState, text)
                   /\ StartedFlag(guidanceState', text)
                   /\ Count(state', text) = Count(state, text) + 1
          /\ (Triggered(text) /\ StartedFlag(guidanceState, text))
                => ~Announces(text) /\ StartedFlag(guidanceState', text)
          /\ (StartedFlag(guidanceState, text) /\ ~StartedFlag(guidanceState', text))
                => ResetClick /\ guidanceState' = resetGuidance
          /\ Count(state', text) <= 1]_vars

\* The retrograde-burn start has been announced on an earlier tick and the
\* first sub-step of a later tick meets the triggering condition again.
C23_Witness ==
    /\ Count(state, RetrogradeStart) = 1
    /\ guidanceState.retrogradeBurnStarted
    /\ Triggered(RetrogradeStart)
    /\ env.ticks >= 2

\* The same for the circularization burn.
C23_WitnessCircularization ==
    /\ Count(state, CircularizationStart) = 1
    /\ guidanceState.circularizationBurnStarted
    /\ Triggered(CircularizationStart)
    /\ env.ticks >= 2

\* The flags have been cleared by a reset after an announcement.
C23_WitnessReset ==
    /\ guidanceState = resetGuidance
    /\ state.time = 0
    /\ Count(state, RetrogradeStart) = 0
    /\ env.ticks >= 1
    /\ ~state.running

FairingJettison == "Fairing jettison"

\* C24: within a run the fairing is jettisoned at most once: fairingJettisoned
\* changes from false to true only at the end of a tick whose altitude, taken
\* at the start of the tick, exceeds fairingJettisonAlt, and such a tick does
\* change it; that step logs "Fairing jettison" once and no other step logs
\* it; the flag returns to false only by a mission reset; the log never holds
\* the event twice.
C24_FairingJettisonedOnce ==
    [][/\ (~state.fairingJettisoned /\ state'.fairingJettisoned /\ ~ResetClick)
             => /\ TickEnd
                /\ tick.altitude > currentConfig.fairingJettisonAlt
                /\ Count(state', FairingJettison) = Count(state, FairingJettison) + 1
       /\ (TickEnd /\ ~state.fairingJettisoned
                   /\ tick.altitude > currentConfig.fairingJettisonAlt)
             => state'.fairingJettisoned
       /\ Count(state', FairingJettison) > Count(state, FairingJettison)
             => ~state.fairingJettisoned /\ state'.fairingJettisoned
       /\ (state.fairingJettisoned /\ ~state'.fairingJettisoned) => ResetClick
       /\ Count(state', FairingJettison) <= 1]_vars

\* The fairing was jettisoned at the end of one tick and a later tick above
\* the jettison altitude has ended.
C24_Witness ==
    /\ state.fairingJettisoned
    /\ Count(state, FairingJettison) = 1
    /\ env.ticks >= 2
    /\ tick.pc = "idle"
    /\ AltitudeM(state) > currentConfig.fairingJettisonAlt

\* A tick that began below the jettison altitude has ended above it with the
\* fairing still on.
C24_WitnessCrossing ==
    /\ ~state.fairingJettisoned
    /\ env.ticks >= 1
    /\ tick.pc = "idle"
    /\ AltitudeM(state) > currentConfig.fairingJettisonAlt

-----------------------------------------------------------------------------
(* Claims about the gimbal actuator.                                       *)

\* The stage whose engine a sub-step gimbals.
ActiveStage(s) == CurrentStage(s, currentConfig)

\* The command of the sub-step clamped to the limits of its stage.
ClampedCommand ==
    Max(0 - ActiveStage(state).gimbalMaxAngle,
        Min(ActiveStage(state).gimbalMaxAngle, state'.commandedGimbal))

\* gimbalRate * dt of the sub-step, millidegrees.
MaxGimbalChange == (ActiveStage(state).gimbalRate * tick.stepDt) \div 1000

\* The sub-step moved the gimbal toward the clamped command, by no more than
\* gimbalRate * dt and not beyond the command.
RateLimitedTowardCommand ==
    /\ Abs(state'.gimbalAngle - state.gimbalAngle) <= MaxGimbalChange
    /\ \/ state.gimbalAngle <= state'.gimbalAngle
          /\ state'.gimbalAngle <= ClampedCommand
       \/ ClampedCommand <= state'.gimbalAngle
          /\ state'.gimbalAngle <= state.gimbalAngle
    /\ Abs(ClampedCommand - state.gimbalAngle) <= MaxGimbalChange
          => state'.gimbalAngle = ClampedCommand

WithinGimbalLimit(s) ==
    StageInRange(s, currentConfig)
       => Abs(s.gimbalAngle) <= ActiveStage(s).gimbalMaxAngle

\* C25: on every sub-step the gimbal angle moves toward the clamped command
\* by at most gimbalRate * dt of the active stage without passing it, and it
\* is within +/- gimbalMaxAngle of the active stage after every step, also
\* after a stage separation between stages of different gimbal limits.
C25_GimbalWithinLimitAndRate ==
    [][/\ (SubStep /\ StageInRange(state, currentConfig)) => RateLimitedTowardCommand
       /\ WithinGimbalLimit(state')]_vars

\* What holds of the gimbal: every sub-step is rate-limited toward the
\* clamped command, and the angle is within the limit of the active stage
\* after a sub-step that began within it; no other step changes the angle
\* except to reset it to 0, a stage separation included, so the angle stays
\* within the limit of the active stage for as long as the stage is the same.
C25_GimbalAsCoded ==
    [][/\ (SubStep /\ StageInRange(state, currentConfig))
             => /\ RateLimitedTowardCommand
                /\ WithinGimbalLimit(state) => WithinGimbalLimit(state')
       /\ ~SubStep => state'.gimbalAngle \in {state.gimbalAngle, 0}
       /\ (WithinGimbalLimit(state) /\ state'.currentStage = state.currentStage)
             => WithinGimbalLimit(state')]_vars

\* After the separation from a first stage that had gimballed beyond the
\* limit of the second.
C25_AfterSeparation ==
    /\ state.currentStage = 1
    /\ Logged(state, "Stage separation")
    /\ Abs(state.gimbalAngle) > ActiveStage(state).gimbalMaxAngle

\* A sub-step of the second stage has run after such a separation and the
\* gimbal is still beyond the limit of the second stage.
C25_Witness ==
    /\ state.currentStage = 1
    /\ Logged(state, "Stage separation")
    /\ tick.pc \in {"step", "end"}
    /\ tick.step >= 1
    /\ Abs(state.gimbalAngle) > ActiveStage(state).gimbalMaxAngle
    /\ Abs(state.gimbalAngle) < 2000

-----------------------------------------------------------------------------
(* Claims about the isolation of the configuration store.                  *)

\* The step is an assignment of the builder to the object it holds.
BuilderAssigns == \E path \in Assignments : BuilderAssign(path)

\* C26: the configuration store is isolated from its callers: an assignment
\* to an object after it was passed to setRocketConfig, or to the object
\* getDefaultRocketConfig returned, changes neither the current configuration
\* nor DEFAULT_ROCKET_CONFIG, because the store's object is never the
\* caller's nor the default; so resetToDefault restores the same normalised
\* default after any sequence of writes.
C26_StoreIsolatedFromCallers ==
    [][/\ BuilderAssigns
             => /\ currentConfig' = currentConfig
                /\ ~env'.defaultAssigned
                /\ env'.held # env.held
       /\ env'.storeObject \notin {env'.heldObject, DefaultObject}
       /\ env'.heldObject # DefaultObject
       /\ BuilderReset
             => /\ currentConfig' = normalizeConfig(ROCKET_CONFIG)
                /\ ~env'.defaultAssigned]_vars

\* The builder has assigned to the object it passed to setRocketConfig, and
\* the current configuration is still the normalised object as passed.
C26_Witness ==
    /\ env.last = "assign"
    /\ ~raised
    /\ \E config \in BuilderInputs :
          /\ ~Rejected(config)
          /\ currentConfig = normalizeConfig(config)
          /\ currentConfig # normalizeConfig(ROCKET_CONFIG)
          /\ env.held # config
          /\ env.held = Assigned(Assigned(config, "fairingJettisonAlt"),
                                 "stages.0.propellantMass")

\* The builder has assigned to the object getDefaultRocketConfig returned and
\* resetToDefault has restored the default since.
C26_WitnessDefault ==
    /\ env.last = "reset"
    /\ ~Has(env.held, "kind")
    /\ env.held # getDefaultRocketConfig
    /\ currentConfig = normalizeConfig(ROCKET_CONFIG)

-----------------------------------------------------------------------------
(* Claims about the manual burns.                                          *)

\* A burn has been started by a burn button and no end of a burn has been
\* logged since: the button is still held.
BurnHeld ==
    Count(state, "Burn started")
       > Count(state, "Burn ended") + Count(state, "Burn ended - out of propellant")

C27_ReleaseAsCoded ==
    [][/\ \A mode \in BurnModes :
             BurnRelease(mode)
                => IF state.burnMode = mode
                   THEN state'.burnMode = "none" /\ ~state'.engineOn
                   ELSE state' = state
       /\ (TickEnd /\ state.burnMode # "none" /\ state.engineOn
                   /\ state'.time <= 600000)
             => state'.burnMode = "none" /\ state'.engineOn]_vars

\* The burn button was released after the tick that started the engine for
\* its burn, and the engine is still on.
C27_EngineLeftOn ==
    /\ BurnHeld
    /\ state.burnMode = "none"
    /\ state.engineOn
    /\ env.budget = 0
    /\ tick.pc = "idle"


-----------------------------------------------------------------------------
(* C28: in orbital mode no sub-step evaluates the guidance law; a sub-step *)
(* has thrust or uses propellant only with a burn mode set and the tick    *)
(* having started above 150 km; with no burn mode the throttle is 0.       *)

\* The steering, thrust and propellant use of the sub-step about to run.
StepSteering == Steering(state, guidanceState, getRocketConfig, tick)

StepThrust ==
    getCurrentThrust(state, getRocketConfig, AltitudeM(state), StepSteering.throttle)

\* C28: every sub-step of an orbital mission leaves the guidance state and
\* the record of guidance calls alone, has thrust or a change of propellant
\* only if a burn mode is set and the tick started above 150 km, and has
\* throttle 0 if no burn mode is set.
C28_OrbitalThrustOnlyFromBurns ==
    [][(SubStep /\ state.gameMode = "orbital")
          => /\ ~StepSteering.guided
             /\ guidanceState' = guidanceState
             /\ call' = call
             /\ (StepThrust # 0 \/ state'.propellantRemaining # state.propellantRemaining)
                   => (state.burnMode # "none" /\ tick.altitude > 150000)
             /\ state.burnMode = "none" => StepSteering.throttle = 0]_vars

\* A sub-step of a burn has run: propellant has gone while a burn mode is set.
C28_Witness ==
    /\ state.gameMode = "orbital"
    /\ tick.pc \in {"step", "end"} /\ tick.step >= 1
    /\ state.burnMode # "none" /\ tick.altitude > 150000
    /\ state.propellantRemaining[2] < ROCKET_CONFIG.stages[2].propellantMass * 100
    /\ ~call.made

\* A sub-step of a tick that started below 150 km with the engine flag on.
C28_WitnessBelow ==
    /\ state.gameMode = "orbital"
    /\ tick.pc = "end"
    /\ state.engineOn /\ tick.altitude <= 150000

\* A coasting sub-step with the engine flag on and no burn mode.
C28_WitnessCoast ==
    /\ state.gameMode = "orbital"
    /\ tick.pc = "end"
    /\ state.burnMode = "none" /\ state.engineOn


-----------------------------------------------------------------------------
(* C29: between two ticks currentStage is 0 or 1 and every stage's         *)
(* propellant is at least 0; only a reset lowers currentStage.             *)

PropellantNotNegative(s) ==
    \A i \in DOMAIN s.propellantRemaining : s.propellantRemaining[i] >= 0

\* C29: whenever no tick is in progress, currentStage is 0 or 1 and no
\* stage has negative propellant; and no step other than the reset of the
\* mission lowers currentStage.
C29_StageAndPropellantAtTickBoundary ==
    /\ [](tick.pc = "idle"
             => state.currentStage \in {0, 1} /\ PropellantNotNegative(state))
    /\ [][ResetClick \/ state'.currentStage >= state.currentStage]_vars

\* A tick has ended with the first stage spent and separated.
C29_Witness ==
    /\ tick.pc = "idle" /\ env.ticks >= 1
    /\ Logged(state, "Stage separation")
    /\ state.currentStage = 1
    /\ state.propellantRemaining[1] = 0

\* Inside a tick the propellant of the burning stage is below 0.
C29_WitnessOverdrawn ==
    /\ tick.pc = "end"
    /\ ~PropellantNotNegative(state)

\* A tick has ended with the second stage spent and the engine cut.
C29_WitnessSECO ==
    /\ tick.pc = "idle"
    /\ Logged(state, "SECO")
    /\ state.currentStage = 1
    /\ state.propellantRemaining[2] = 0

\* A reset has put a mission back on its first stage.
C29_WitnessReset ==
    /\ tick.pc = "idle" /\ env.ticks >= 1
    /\ state.currentStage = 0 /\ state.time = 0 /\ ~state.running
    /\ state.gameMode # "none"
    /\ env.budget < MaxCommands


-----------------------------------------------------------------------------
(* C30: the launch command acts only on a stopped mission at time 0 in a   *)
(* mode other than orbital; the engine is switched on only by it and by a  *)
(* burn mode above 150 km with propellant left.                            *)

Launchable(s) ==
    /\ ~s.running
    /\ s.time = 0
    /\ s.gameMode # "none"
    /\ s.gameMode # "orbital"

\* The engine goes from off to on in this step.
Ignites == ~state.engineOn /\ state'.engineOn

\* A frame begins with a burn mode set above 150 km and propellant left.
BurnIgnition ==
    /\ \E wallDt \in WallDeltas : TickBegin(wallDt, MaxTicks)
    /\ state.burnMode # "none"
    /\ AltitudeM(state) > 150000
    /\ CurrentPropellant(state) > 0

\* C30: a launch click on a launchable state sets running and engineOn and
\* logs the liftoff, and on any other state changes nothing; and the only
\* steps that switch the engine on are that launch and the start of a frame
\* with a burn mode set above 150 km and propellant remaining.
C30_EngineOnOnlyByLaunchOrBurn ==
    [][/\ LaunchClick
          => IF Launchable(state)
             THEN /\ state'.running /\ state'.engineOn
                  /\ state' = addEvent([state EXCEPT !.running = TRUE,
                                                     !.engineOn = TRUE], "LIFTOFF!")
                  /\ UNCHANGED <<currentConfig, raised, guidanceState, speedIdx,
                                 tick, call, env>>
             ELSE UNCHANGED vars
       /\ Ignites => (LaunchClick /\ Launchable(state)) \/ BurnIgnition]_vars

\* The launch has taken effect.
C30_Witness ==
    /\ state.running /\ state.engineOn /\ state.time = 0
    /\ state.gameMode \in {"guided", "manual"}
    /\ Logged(state, "LIFTOFF!")

\* An orbital mission paused at time 0: stopped, at time 0, not launchable.
C30_WitnessOrbital ==
    /\ state.gameMode = "orbital"
    /\ ~state.running /\ state.time = 0
    /\ tick.pc = "idle"

\* A burn has switched the engine on.
C30_WitnessBurn ==
    /\ state.gameMode = "orbital"
    /\ state.engineOn /\ state.burnMode # "none"

\* Guidance steers a launched vehicle whose engine has been cut off.
C30_WitnessCutOff ==
    /\ state.gameMode = "guided"
    /\ Logged(state, "SECO")
    /\ ~state.engineOn
    /\ tick.pc = "end" /\ call.made

====
